---- MODULE Spec2Model ----
(***************************************************************************)
(* A model of the tool-augmented conversational agent of task/agent.py:    *)
(* the streaming aggregation of one provider turn (the `async for chunk`   *)
(* loop of GeneralPurposeAgent.handle_request), the concurrent dispatch of *)
(* the turn's tool calls (asyncio.gather over _process_tool_call) and the  *)
(* recursion that continues the conversation.                              *)
(*                                                                         *)
(* Text (content, names, argument text) is a sequence of one-character     *)
(* strings, so that concatenation, splitting and parsing are computed.     *)
(*                                                                         *)
(* The specifications share the variables:                                 *)
(*   SpecAgg    one provider stream folded chunk by chunk, with the chunks *)
(*              consumed so far recorded in `arrived`;                     *)
(*   SpecSplit  the same fold, side by side with the fold of a re-split    *)
(*              copy of the stream;                                        *)
(*   Spec       one request: provider rounds, the dispatch of each turn's  *)
(*              tool calls as concurrent tasks, the tool-call history.     *)
(*   SpecLoop   one request as in Spec, over more provider rounds and a    *)
(*              smaller provider alphabet, with `arrived` recorded;        *)
(*   FairLoop   SpecLoop with the fairness of the event loop;              *)
(*   SpecText   one request as in Spec, with a provider of two different   *)
(*              text increments and `arrived` recorded;                    *)
(*   SpecApp    concurrent requests served by one application object;      *)
(*   SpecMcp    coroutines calling the one MCPClient the tools share;      *)
(*   SpecResource     MCPClient.get_resource over the resources a server   *)
(*              can hold;                                                  *)
(*   SpecInterpreter  the file loop of the code interpreter tool;          *)
(*   SpecRag    concurrent rag_search calls over one document cache;       *)
(*   SpecImage  one request whose first turn asks for generate_image;      *)
(*   SpecOutput the output entries of an execution result being returned.  *)
(* `arrived` is recorded by SpecAgg, SpecLoop and SpecText, the resplit_*  *)
(* variables by SpecSplit only.                                            *)
(***************************************************************************)
EXTENDS Integers, Sequences, FiniteSets, TLC

VARIABLES
    pc,                   \* position of handle_request (or of the fold, in SpecAgg)
    content,              \* agent.py:56   the text buffer of the current turn
    tool_call_index_map,  \* agent.py:55   dict index -> record, in insertion order
    assistant_message,    \* agent.py:111  the last finalized turn
    chunk_count,          \* agent.py:59   chunks consumed in the current turn
    arrived,              \* history: the chunks consumed so far in the current turn
                          \*          (recorded by SpecAgg, SpecLoop, SpecText)
    resplit_content,      \* the text buffer of the fold of the re-split stream
    resplit_map,          \* the slot table of the fold of the re-split stream
    resplit_message,      \* the finalized turn of the re-split stream
    cut_kinds,            \* history: the kinds of increment a re-splitting has cut inside
    rounds,               \* history: number of provider requests issued (agent.py:46)
    tool_call_history,    \* agent.py:30   self.state[TOOL_CALL_HISTORY_KEY]
    tasks,                \* agent.py:124  the coroutines given to asyncio.gather
    tool_messages,        \* agent.py:130  what gather returned for the last turn
    dispatches,           \* history: number of gather calls started
    completion_order,     \* history: task numbers of the last dispatch, as completed
    executed,             \* history: tool calls for which tool.execute was entered
    sink,                 \* choice.append_content, agent.py:69
    choice_state,         \* choice.set_state, agent.py:143
    self_tools,           \* app.py:35    agent_app.tools (SpecApp)
    builds,               \* history: number of _create_tools calls (SpecApp)
    request,              \* the chat_completion coroutine of each request (SpecApp)
    agents,               \* the GeneralPurposeAgent objects constructed (SpecApp)
    session,              \* mcp_client.py:17  MCPClient.session (SpecMcp)
    session_context,      \* mcp_client.py:19  MCPClient._session_context
    streams_context,      \* mcp_client.py:18  MCPClient._streams_context
    transports,           \* the transport contexts created by streamablehttp_client
    sessions,             \* the ClientSession objects created
    caller,               \* the coroutines that call the shared client
    closes,               \* history: number of close() calls entered
    resource,             \* what the MCP server holds under the uri read (SpecResource)
    contents,             \* mcp_client.py:118  result.contents of read_resource
    fetched,              \* mcp_client.py:111  what get_resource returned
    interpreter_pc,       \* position of PythonCodeInterpreterTool._execute (SpecInterpreter)
    files,                \* python_code_interpreter_tool.py:139  execution_result.files,
                          \*   each with what its retrieval and upload will answer
    file_index,           \* python_code_interpreter_tool.py:167  files iterated so far
    stage_content,        \* stage.append_content of the file loop, per file
    attachments,          \* choice.add_attachment, per file
    stage_attachments,    \* stage.add_attachment, per file
    bucket_id,            \* python_code_interpreter_tool.py:146-160  bucket_id
    upload_attempts,      \* history: the client.files.upload calls made, per file
    tool_result,          \* python_code_interpreter_tool.py:363  the value returned
    cache,                \* rag_tool.py:39  self.document_cache, key -> (index, chunks) (SpecRag)
    rag,                  \* the RagTool._execute coroutines in flight
    lookups,              \* history: the document_cache.get calls made
    extractions,          \* history: the extract_text calls made
    evictions,            \* history: number of entries the cache has evicted
    searches,             \* history: number of rag_search calls entered
    deployment_response,  \* deployment/base.py:72-96  what the image deployment streamed (SpecImage)
    choice_attachments,   \* image_generation_tool.py:37  choice.add_attachment
    execution_output,     \* python_code_interpreter_tool.py:353  execution_result.output (SpecOutput)
    returned_output       \* python_code_interpreter_tool.py:363  the output of the returned result

vars == <<pc, content, tool_call_index_map, assistant_message, chunk_count, arrived,
          resplit_content, resplit_map, resplit_message, cut_kinds,
          rounds, tool_call_history, tasks, tool_messages, dispatches,
          completion_order, executed, sink, choice_state,
          self_tools, builds, request, agents,
          session, session_context, streams_context, transports, sessions,
          caller, closes,
          resource, contents, fetched,
          interpreter_pc, files, file_index, stage_content, attachments,
          stage_attachments, bucket_id, upload_attempts, tool_result,
          cache, rag, lookups, extractions, evictions, searches,
          deployment_response, choice_attachments,
          execution_output, returned_output>>

resplitVars == <<resplit_content, resplit_map, resplit_message, cut_kinds>>

orchVars == <<rounds, tool_call_history, tasks, tool_messages, dispatches,
              completion_order, executed, sink, choice_state>>

appVars == <<self_tools, builds, request, agents>>

mcpVars == <<session, session_context, streams_context, transports, sessions,
             caller, closes>>

resourceVars == <<resource, contents, fetched>>

interpreterVars == <<interpreter_pc, files, file_index, stage_content, attachments,
                     stage_attachments, bucket_id, upload_attempts, tool_result>>

ragVars == <<cache, rag, lookups, extractions, evictions, searches>>

imageVars == <<deployment_response, choice_attachments>>

\* The variables of the tools' own components.
outputVars == <<execution_output, returned_output>>

toolVars == <<mcpVars, resourceVars, interpreterVars, ragVars, imageVars, outputVars>>

\* The variables of one handle_request.
agentVars == <<pc, content, tool_call_index_map, assistant_message, chunk_count,
               arrived, resplit_content, resplit_map, resplit_message, cut_kinds,
               rounds, tool_call_history, tasks, tool_messages, dispatches,
               completion_order, executed, sink, choice_state>>

-----------------------------------------------------------------------------
(* Bounds *)

\* Longest provider stream of one turn that SpecAgg folds.
MaxChunks == 3

\* Longest provider stream that SpecSplit folds beside its re-split copy.
MaxSplitChunks == 3

\* Concurrent requests served by the application object in SpecApp.
MaxRequests == 2

\* Tool-requesting turns of one request in SpecApp.
MaxAppTurns == 1

Requests == 1..MaxRequests

\* Calls made on the shared MCPClient in SpecMcp, by all callers together.
MaxCalls == 3

\* The coroutines that share one MCPClient in SpecMcp.
Callers == {1, 2}

\* Slot indices a tool-call delta can carry.
Slots == {0, 1}

\* The absent id / name / arguments of a delta: None and "" are both falsy.
NoId == ""
Empty == << >>

\* The call identifier the provider assigns to a slot.
CallIdOf(i) == IF i = 0 THEN "call_a" ELSE "call_b"

\* Text, name and argument increments of the streams SpecAgg folds.
TextIncs == {<<"a", "b">>}
NameIncs == {Empty, <<"f", "g">>}
ArgIncs == {Empty, <<"x">>, <<"y", "z">>}

-----------------------------------------------------------------------------
(* The Delta Aggregator: agent.py:60-115 *)

\* delta.tool_calls[k].function is None, or carries a name and arguments.
NoFunction == [present |-> FALSE, name |-> Empty, arguments |-> Empty]

Function(n, a) == [present |-> TRUE, name |-> n, arguments |-> a]

ToolCallDelta(i, id, f) == [index |-> i, id |-> id, function |-> f]

\* A chunk without choices or without a delta (agent.py:64-66) has has_delta FALSE.
Chunk(c, tcs) == [has_delta |-> TRUE, content |-> c, tool_calls |-> tcs]

EmptyChunk == [has_delta |-> FALSE, content |-> Empty, tool_calls |-> << >>]

\* Position of slot index i in the insertion-ordered dict, 0 when absent.
IndexPos(map, i) ==
    IF \E p \in 1..Len(map) : map[p].index = i
    THEN CHOOSE p \in 1..Len(map) : map[p].index = i
    ELSE 0

\* agent.py:79-86: the record stored when a delta carries an id.
NewRecord(i, id) == [index |-> i, id |-> id, name |-> Empty, arguments |-> Empty]

\* dict.__setitem__: an existing key keeps its position, a new key goes last.
SetItem(map, i, rec) ==
    IF IndexPos(map, i) = 0
    THEN Append(map, rec)
    ELSE [map EXCEPT ![IndexPos(map, i)] = rec]

\* agent.py:78-86: a delta with a (truthy) id stores a fresh record for its slot,
\* whether or not the slot already has one.
AssignId(map, d) ==
    IF d.id # NoId THEN SetItem(map, d.index, NewRecord(d.index, d.id)) ELSE map

AppendArguments_overwrite(old, argument_chunk) == argument_chunk

\* agent.py:98-99: tool_call['function']['arguments'] += argument_chunk
AppendArguments(old, argument_chunk) == old \o argument_chunk

\* agent.py:94-95: a non-empty name replaces the recorded name.
SetName(old, n) == IF n # Empty THEN n ELSE old

UpdateRecord_leak(map, d) ==
    IF IndexPos(map, d.index) # 0 /\ d.function.present
    THEN [p \in 1..Len(map) |->
            [map[p] EXCEPT !.name = SetName(@, d.function.name),
                           !.arguments = AppendArguments(@, d.function.arguments)]]
    ELSE map

\* agent.py:89-99: name and arguments go to the slot's record, when it exists.
UpdateRecord(map, d) ==
    LET p == IndexPos(map, d.index) IN
    IF p # 0 /\ d.function.present
    THEN [map EXCEPT ![p] =
            [@ EXCEPT !.name = SetName(@, d.function.name),
                      !.arguments = AppendArguments(@, d.function.arguments)]]
    ELSE map

\* agent.py:74-99: one iteration of `for tool_call_delta in delta.tool_calls`.
IngestDelta(map, d) == UpdateRecord(AssignId(map, d), d)

RECURSIVE IngestDeltas(_, _)
IngestDeltas(map, ds) ==
    IF ds = << >> THEN map
    ELSE IngestDeltas(IngestDelta(map, Head(ds)), Tail(ds))

IngestContent_prepend(c, chunk) ==
    IF chunk.has_delta /\ chunk.content # Empty THEN chunk.content \o c ELSE c

\* agent.py:68-70: content += delta.content, for a non-empty increment.
IngestContent(c, chunk) ==
    IF chunk.has_delta /\ chunk.content # Empty THEN c \o chunk.content ELSE c

\* agent.py:73-99
IngestToolCalls(map, chunk) ==
    IF chunk.has_delta THEN IngestDeltas(map, chunk.tool_calls) ELSE map

ForwardContent_newest_first(s, chunk) ==
    IF chunk.has_delta /\ chunk.content # Empty THEN <<chunk.content>> \o s ELSE s

\* agent.py:69: choice.append_content(delta.content), for a non-empty increment.
ForwardContent(s, chunk) ==
    IF chunk.has_delta /\ chunk.content # Empty THEN Append(s, chunk.content) ELSE s

\* agent.py:103-109: the records of the dict, in insertion order.
ToolCalls(map) ==
    [p \in 1..Len(map) |->
        [id |-> map[p].id, name |-> map[p].name, arguments |-> map[p].arguments]]

\* agent.py:111-115: Message(role=ASSISTANT, content=..., tool_calls=...).
\* None and the empty value coincide for both fields (falsy).
Finalize(c, map) ==
    [role |-> "assistant", content |-> c, tool_calls |-> ToolCalls(map)]

NoMessage == [role |-> "none", content |-> Empty, tool_calls |-> << >>]

HasToolCalls_no_text(message) == message.content = Empty

\* agent.py:118: `if assistant_message.tool_calls:`
HasToolCalls(message) == message.tool_calls # << >>

-----------------------------------------------------------------------------
(* Re-splitting a stream: every increment of a chunk is cut in two at any   *)
(* boundary, the pieces arrive in order, and an id stays on the first piece *)

\* Every way to cut a text in two, the trivial cuts included.
Cuts(s) == { <<SubSeq(s, 1, k), SubSeq(s, k + 1, Len(s))>> : k \in 0..Len(s) }

SplitDelta(d) ==
    IF d.function.present
    THEN { <<ToolCallDelta(d.index, d.id, Function(n[1], a[1])),
             ToolCallDelta(d.index, NoId, Function(n[2], a[2]))>> :
              n \in Cuts(d.function.name), a \in Cuts(d.function.arguments) }
    ELSE { <<d>> }

\* The re-splittings of one chunk that carries at most one tool-call delta.
Resplits(chunk) ==
    IF ~chunk.has_delta \/ Len(chunk.tool_calls) > 1 THEN { <<chunk>> }
    ELSE IF chunk.tool_calls = << >>
    THEN { <<Chunk(c[1], << >>), Chunk(c[2], << >>)>> : c \in Cuts(chunk.content) }
    ELSE { IF Len(dd) = 2
           THEN <<Chunk(c[1], <<dd[1]>>), Chunk(c[2], <<dd[2]>>)>>
           ELSE <<Chunk(c[1], <<dd[1]>>), Chunk(c[2], << >>)>> :
              c \in Cuts(chunk.content), dd \in SplitDelta(chunk.tool_calls[1]) }

\* Both pieces carry a tool-call delta.
BothHaveDelta(pieces) ==
    /\ Len(pieces) = 2
    /\ Len(pieces[1].tool_calls) = 1
    /\ Len(pieces[2].tool_calls) = 1

\* The kinds of increment of which both pieces carry a proper part.
CutKinds(pieces) ==
    (IF Len(pieces) = 2 /\ pieces[1].content # Empty /\ pieces[2].content # Empty
     THEN {"text"} ELSE {})
    \cup
    (IF /\ BothHaveDelta(pieces)
        /\ pieces[1].tool_calls[1].function.name # Empty
        /\ pieces[2].tool_calls[1].function.name # Empty
     THEN {"name"} ELSE {})
    \cup
    (IF /\ BothHaveDelta(pieces)
        /\ pieces[1].tool_calls[1].function.arguments # Empty
        /\ pieces[2].tool_calls[1].function.arguments # Empty
     THEN {"arguments"} ELSE {})

RECURSIVE FoldContent(_, _)
FoldContent(c, chunks) ==
    IF chunks = << >> THEN c
    ELSE FoldContent(IngestContent(c, Head(chunks)), Tail(chunks))

RECURSIVE FoldToolCalls(_, _)
FoldToolCalls(map, chunks) ==
    IF chunks = << >> THEN map
    ELSE FoldToolCalls(IngestToolCalls(map, Head(chunks)), Tail(chunks))

-----------------------------------------------------------------------------
(* SpecAgg: the fold of one provider stream *)

\* The chunks the provider may send: a keep-alive, a text increment, or one
\* tool-call delta with any combination of id, name and argument increment.
AggFunctions ==
    {NoFunction} \cup { Function(n, a) : n \in NameIncs, a \in ArgIncs }

AggDeltas ==
    UNION { { ToolCallDelta(i, id, f) : id \in {NoId, CallIdOf(i)}, f \in AggFunctions } :
              i \in Slots }

AggChunks ==
    {EmptyChunk}
        \cup { Chunk(t, << >>) : t \in TextIncs }
        \cup { Chunk(Empty, <<d>>) : d \in AggDeltas }

OrchIdle ==
    /\ rounds = 0
    /\ tool_call_history = << >>
    /\ tasks = << >>
    /\ tool_messages = << >>
    /\ dispatches = 0
    /\ completion_order = << >>
    /\ executed = {}
    /\ choice_state = << >>

\* app.py:34-35, 126: the application object before any request; NoAgent is
\* the agent of a request that has not constructed one.
NoAgent == 0

NewRequest == [pc |-> "idle", tools |-> << >>, agent |-> NoAgent, turns |-> 0,
               published |-> << >>]

AppIdle ==
    /\ self_tools = << >>
    /\ builds = 0
    /\ request = [r \in Requests |-> NewRequest]
    /\ agents = << >>

\* mcp_client.py:15-19: None, as the value of session and of the two contexts;
\* objects are numbered from 1.
None == 0

NewCaller == [pc |-> "idle", op |-> "none", transport |-> None, session |-> None,
              calls |-> 0, outcome |-> "none", teardown_errors |-> 0]

\* mcp_client.py:15-31: the client after MCPClient.create, which does not
\* connect.
McpIdle ==
    /\ session = None
    /\ session_context = None
    /\ streams_context = None
    /\ transports = << >>
    /\ sessions = << >>
    /\ caller = [c \in Callers |-> NewCaller]
    /\ closes = 0

\* No resource is being read.
NoResource == [tag |-> "none", data |-> << >>]

ResourceIdle ==
    /\ resource = NoResource
    /\ contents = << >>
    /\ fetched = NoResource

\* python_code_interpreter_tool.py:97: _execute has not been entered.
InterpreterIdle ==
    /\ interpreter_pc = "idle"
    /\ files = << >>
    /\ file_index = 0
    /\ stage_content = << >>
    /\ attachments = << >>
    /\ stage_attachments = << >>
    /\ bucket_id = << >>
    /\ upload_attempts = << >>
    /\ tool_result = "none"

\* The coroutines that run RagTool._execute concurrently.
RagCallers == {1, 2}

NoCall == [pc |-> "idle", conversation_id |-> << >>, file_url |-> << >>,
           key |-> << >>, index |-> 0, chunks |-> 0, derived |-> FALSE,
           result |-> "none"]

\* app.py:72: DocumentCache.create(), an empty cache; no rag_search in flight.
RagIdle ==
    /\ cache = << >>
    /\ rag = [c \in RagCallers |-> NoCall]
    /\ lookups = {}
    /\ extractions = << >>
    /\ evictions = 0
    /\ searches = 0

\* The image deployment has not been called.
NoResponse == [answered |-> FALSE, content |-> << >>, attachments |-> << >>]

ImageIdle ==
    /\ deployment_response = NoResponse
    /\ choice_attachments = << >>

\* No execution result is being returned.
NotReturned == [returned |-> FALSE, output |-> << >>]

OutputIdle ==
    /\ execution_output = << >>
    /\ returned_output = NotReturned

ToolsIdle ==
    McpIdle /\ ResourceIdle /\ InterpreterIdle /\ RagIdle /\ ImageIdle /\ OutputIdle

AggInit ==
    /\ AppIdle
    /\ ToolsIdle
    /\ pc = "stream"
    /\ content = Empty
    /\ tool_call_index_map = << >>
    /\ assistant_message = NoMessage
    /\ chunk_count = 0
    /\ arrived = << >>
    /\ resplit_content = Empty
    /\ resplit_map = << >>
    /\ resplit_message = NoMessage
    /\ cut_kinds = {}
    /\ sink = << >>
    /\ OrchIdle

\* agent.py:60-99: one iteration of `async for chunk in chunks`.
AggIngest ==
    /\ pc = "stream"
    /\ chunk_count < MaxChunks
    /\ \E chunk \in AggChunks :
        /\ content' = IngestContent(content, chunk)
        /\ tool_call_index_map' = IngestToolCalls(tool_call_index_map, chunk)
        /\ sink' = ForwardContent(sink, chunk)
        /\ arrived' = Append(arrived, chunk)
    /\ chunk_count' = chunk_count + 1
    /\ UNCHANGED <<pc, assistant_message, rounds, tool_call_history, tasks,
                   tool_messages, dispatches, completion_order, executed,
                   choice_state>>
    /\ UNCHANGED resplitVars
    /\ UNCHANGED appVars
    /\ UNCHANGED toolVars

\* agent.py:101-115: the stream closed, the assistant message is built.
AggFinalize ==
    /\ pc = "stream"
    /\ pc' = "finalized"
    /\ assistant_message' = Finalize(content, tool_call_index_map)
    /\ UNCHANGED <<content, tool_call_index_map, chunk_count, arrived>>
    /\ UNCHANGED resplitVars
    /\ UNCHANGED appVars
    /\ UNCHANGED toolVars
    /\ UNCHANGED orchVars

AggNext == AggIngest \/ AggFinalize

SpecAgg == AggInit /\ [][AggNext]_vars

-----------------------------------------------------------------------------
(* SpecSplit: the fold of a stream beside the fold of a re-split copy of it *)

\* agent.py:60-99 on the chunk, and on the pieces of a re-splitting of it.
SplitIngest ==
    /\ pc = "stream"
    /\ chunk_count < MaxSplitChunks
    /\ \E chunk \in AggChunks : \E pieces \in Resplits(chunk) :
        /\ content' = IngestContent(content, chunk)
        /\ tool_call_index_map' = IngestToolCalls(tool_call_index_map, chunk)
        /\ sink' = ForwardContent(sink, chunk)
        /\ resplit_content' = FoldContent(resplit_content, pieces)
        /\ resplit_map' = FoldToolCalls(resplit_map, pieces)
        /\ cut_kinds' = cut_kinds \cup CutKinds(pieces)
    /\ chunk_count' = chunk_count + 1
    /\ UNCHANGED <<pc, assistant_message, resplit_message, arrived, rounds,
                   tool_call_history, tasks, tool_messages, dispatches,
                   completion_order, executed, choice_state>>
    /\ UNCHANGED appVars
    /\ UNCHANGED toolVars

\* agent.py:101-115 for both folds.
SplitFinalize ==
    /\ pc = "stream"
    /\ pc' = "finalized"
    /\ assistant_message' = Finalize(content, tool_call_index_map)
    /\ resplit_message' = Finalize(resplit_content, resplit_map)
    /\ UNCHANGED <<content, tool_call_index_map, chunk_count, arrived,
                   resplit_content, resplit_map, cut_kinds>>
    /\ UNCHANGED orchVars
    /\ UNCHANGED appVars
    /\ UNCHANGED toolVars

SplitNext == SplitIngest \/ SplitFinalize

SpecSplit == AggInit /\ [][SplitNext]_vars

-----------------------------------------------------------------------------
(* The capability registry and one tool call: agent.py:26-28, 157-193 *)

\* Provider rounds of one request in Spec: the provider requests tools in
\* every round before the last one.
MaxRounds == 2

\* Longest provider stream of one turn in Spec.
MaxTurnChunks == 2

\* agent.py:28 self._tools_dict, by tool name (a one-token text).
\* app.py:64, 73: the image tool and the document-search tool.
ToolNames == { <<"generate_image">>, <<"rag_search">> }

\* A name the provider may ask for that no tool declares.
UnknownNames == { <<"no_such_tool">> }

\* BaseTool.show_in_stage: the default a tool inherits when it does not
\* override the property.
BaseTool_show_in_stage == TRUE

\* rag_tool.py:59-62 overrides the property with False; the image tool
\* (image_generation_tool.py, deployment/base.py) does not override it.
show_in_stage(tool_name) ==
    IF tool_name = <<"rag_search">> THEN FALSE ELSE BaseTool_show_in_stage

\* json.loads over the argument texts of the model: of the texts made of
\* braces only "{}" is a JSON document; the empty text is none.
JsonLoadsOk(arguments) == arguments = <<"{", "}">>

NoResult == [role |-> "none", tool_call_id |-> NoId, content |-> Empty]

\* agent.py:167-171: the message returned for a name the registry lacks.
NotFoundMessage(tool_call) ==
    [role |-> "tool",
     tool_call_id |-> tool_call.id,
     content |-> <<"Error: Tool '">> \o tool_call.name \o <<"' ", "not found">>]

\* What the tool's own _execute does with the call: every _execute starts with
\* json.loads of the argument text (rag_tool.py:99, deployment/base.py:34,
\* mcp_tool.py:22), which raises on a malformed text; after that the outcome is
\* the environment's.
ExecuteOutcomes(tool_call) ==
    IF JsonLoadsOk(tool_call.arguments) THEN {"ok", "raise"} ELSE {"raise"}

\* BaseTool.execute: the wrapper around _execute. It answers with a tool
\* message for the call; an exception raised by _execute becomes the content
\* of that message.
BaseTool_execute(tool_call, outcome) ==
    [role |-> "tool",
     tool_call_id |-> tool_call.id,
     content |-> IF outcome = "ok"
                 THEN <<"result of ">> \o tool_call.name
                 ELSE <<"ERROR during tool call execution">>]

NewTask(tool_call) ==
    [tool_call |-> tool_call, status |-> "pending", stage |-> "none",
     result |-> NoResult]

\* agent.py:124-127: one coroutine per tool call, in the order of the list.
NewTasks(tool_calls) == [i \in 1..Len(tool_calls) |-> NewTask(tool_calls[i])]

ProcessStart_raise_not_found(task) ==
    IF task.tool_call.name \notin ToolNames
    THEN [task EXCEPT !.stage = "open", !.status = "raised"]
    ELSE IF show_in_stage(task.tool_call.name) /\ ~JsonLoadsOk(task.tool_call.arguments)
    THEN [task EXCEPT !.stage = "open", !.status = "raised"]
    ELSE [task EXCEPT !.stage = "open", !.status = "executing"]

\* agent.py:157-187: _process_tool_call up to its first suspension, the await
\* of tool.execute. The stage is opened (161); an unknown name is answered and
\* the stage closed (164-171); for a tool shown in the stage the argument text
\* is parsed to be rendered (174-177), and a malformed text raises out of the
\* coroutine with the stage left open.
ProcessStart(task) ==
    IF task.tool_call.name \notin ToolNames
    THEN [task EXCEPT !.stage = "closed", !.status = "done",
                      !.result = NotFoundMessage(task.tool_call)]
    ELSE IF show_in_stage(task.tool_call.name) /\ ~JsonLoadsOk(task.tool_call.arguments)
    THEN [task EXCEPT !.stage = "open", !.status = "raised"]
    ELSE [task EXCEPT !.stage = "open", !.status = "executing"]

\* agent.py:187-193: tool.execute answered; the stage is closed and the message
\* returned.
ProcessFinish(task, outcome) ==
    [task EXCEPT !.stage = "closed", !.status = "done",
                 !.result = BaseTool_execute(task.tool_call, outcome)]

GatherReady_first_completed(ts) == \E i \in 1..Len(ts) : ts[i].status = "done"

\* agent.py:130: gather returns when every awaitable has returned.
GatherReady(ts) == \A i \in 1..Len(ts) : ts[i].status = "done"

GatherResults_completion_order(ts, order) ==
    [k \in 1..Len(ts) |-> ts[order[k]].result]

\* agent.py:130: gather's result list follows the order of its arguments.
GatherResults(ts, order) == [i \in 1..Len(ts) |-> ts[i].result]

\* agent.py:130: without return_exceptions the first exception of an awaitable
\* is raised to the awaiter of gather; the other awaitables are not cancelled.
GatherRaises(ts) == \E i \in 1..Len(ts) : ts[i].status = "raised"

ExtendHistory_results_first(history, message, results) ==
    Append(history \o results, message)

ExtendHistory_results_only(history, message, results) == history \o results

ExtendHistory_drops_a_result(history, message, results) ==
    IF Len(results) > 1 THEN Append(history, message) \o Tail(results)
    ELSE Append(history, message) \o results

ExtendHistory_last_turn_only(history, message, results) ==
    Append(<< >>, message) \o results

\* agent.py:133-136: the assistant message is appended to the tool-call history
\* and the history extended with the list gather returned.
ExtendHistory(history, message, results) == Append(history, message) \o results

CreateRaises_swallowed == "stream"

\* agent.py:46: no try encloses the await of chat.completions.create, so its
\* exception leaves handle_request; this is where the request is then.
CreateRaises == "failed_provider"

-----------------------------------------------------------------------------
(* Spec: one request, agent.py:32-144 *)

\* Argument increments of the provider in Spec.
OrchArgIncs == { <<"{", "}">>, <<"{">> }

\* The chunks of the provider in Spec: a text increment, the first delta of a
\* slot's tool call (id, name, first argument increment), and the closing brace
\* of a slot's arguments.
OrchDeltas ==
    UNION { { ToolCallDelta(i, CallIdOf(i), Function(n, a)) :
                n \in ToolNames \cup UnknownNames, a \in OrchArgIncs } : i \in Slots }
        \cup { ToolCallDelta(i, NoId, Function(Empty, <<"}">>)) : i \in Slots }

TextChunks == { Chunk(t, << >>) : t \in TextIncs }

ToolChunks == { Chunk(Empty, <<d>>) : d \in OrchDeltas }

\* agent.py:18-30: the agent before handle_request is entered.
RequestIdle ==
    /\ pc = "start"
    /\ content = Empty
    /\ tool_call_index_map = << >>
    /\ assistant_message = NoMessage
    /\ chunk_count = 0
    /\ arrived = << >>
    /\ resplit_content = Empty
    /\ resplit_map = << >>
    /\ resplit_message = NoMessage
    /\ cut_kinds = {}
    /\ sink = << >>
    /\ OrchIdle

Init ==
    /\ AppIdle
    /\ ToolsIdle
    /\ RequestIdle

\* agent.py:32-46: handle_request is entered and the provider request issued.
HandleRequest ==
    /\ pc = "start"
    /\ pc' = "create"
    /\ rounds' = rounds + 1
    /\ UNCHANGED <<content, tool_call_index_map, assistant_message, chunk_count,
                   arrived, tool_call_history, tasks, tool_messages, dispatches,
                   completion_order, executed, sink, choice_state>>
    /\ UNCHANGED resplitVars
    /\ UNCHANGED appVars
    /\ UNCHANGED toolVars

\* agent.py:46-59: the provider answered with a stream; the turn's buffers are
\* created empty.
ProviderResponds ==
    /\ pc = "create"
    /\ pc' = "stream"
    /\ content' = Empty
    /\ tool_call_index_map' = << >>
    /\ chunk_count' = 0
    /\ arrived' = << >>
    /\ UNCHANGED <<assistant_message, rounds, tool_call_history, tasks,
                   tool_messages, dispatches, completion_order, executed, sink,
                   choice_state>>
    /\ UNCHANGED resplitVars
    /\ UNCHANGED appVars
    /\ UNCHANGED toolVars

\* agent.py:46: the provider call raises; the exception leaves handle_request.
ProviderFails ==
    /\ pc = "create"
    /\ pc' = CreateRaises
    /\ UNCHANGED <<content, tool_call_index_map, assistant_message, chunk_count,
                   arrived, rounds, tool_call_history, tasks, tool_messages,
                   dispatches, completion_order, executed, sink, choice_state>>
    /\ UNCHANGED resplitVars
    /\ UNCHANGED appVars
    /\ UNCHANGED toolVars

\* agent.py:60-99: one iteration of `async for chunk in chunks`, over a chunk
\* of `chunks`; `log` says whether the chunk is recorded in `arrived`.
ConsumeChunk(chunks, log) ==
    /\ pc = "stream"
    /\ \E chunk \in chunks :
        /\ content' = IngestContent(content, chunk)
        /\ tool_call_index_map' = IngestToolCalls(tool_call_index_map, chunk)
        /\ sink' = ForwardContent(sink, chunk)
        /\ arrived' = IF log THEN Append(arrived, chunk) ELSE arrived
    /\ chunk_count' = chunk_count + 1
    /\ UNCHANGED <<pc, assistant_message, rounds, tool_call_history,
                   tasks, tool_messages, dispatches, completion_order, executed,
                   choice_state>>
    /\ UNCHANGED resplitVars
    /\ UNCHANGED appVars
    /\ UNCHANGED toolVars

\* The provider of Spec asks for tools only before the last round.
StreamChunk ==
    /\ chunk_count < MaxTurnChunks
    /\ ConsumeChunk(TextChunks \cup (IF rounds < MaxRounds THEN ToolChunks ELSE {}),
                    FALSE)

\* agent.py:101-130: the stream closed on a turn with tool calls; the
\* coroutines are created and handed to gather.
FinalizeWithToolCalls ==
    /\ pc = "stream"
    /\ HasToolCalls(Finalize(content, tool_call_index_map))
    /\ assistant_message' = Finalize(content, tool_call_index_map)
    /\ tasks' = NewTasks(assistant_message'.tool_calls)
    /\ tool_messages' = << >>
    /\ completion_order' = << >>
    /\ dispatches' = dispatches + 1
    /\ pc' = "gather"
    /\ UNCHANGED <<content, tool_call_index_map, chunk_count, arrived, rounds,
                   tool_call_history, executed, sink, choice_state>>
    /\ UNCHANGED resplitVars
    /\ UNCHANGED appVars
    /\ UNCHANGED toolVars

\* agent.py:101-118, 141-144: the stream closed on a turn without tool calls;
\* the state is published and the message returned.
FinalizeFinal ==
    /\ pc = "stream"
    /\ ~HasToolCalls(Finalize(content, tool_call_index_map))
    /\ assistant_message' = Finalize(content, tool_call_index_map)
    /\ choice_state' = Append(choice_state, tool_call_history)
    /\ pc' = "done"
    /\ UNCHANGED <<content, tool_call_index_map, chunk_count, arrived, rounds,
                   tool_call_history, tasks, tool_messages, dispatches,
                   completion_order, executed, sink>>
    /\ UNCHANGED resplitVars
    /\ UNCHANGED appVars
    /\ UNCHANGED toolVars

\* The event loop runs the first segment of the next coroutine of the gather
\* (tasks start in the order they were created).
TaskStart(i) ==
    /\ tasks[i].status = "pending"
    /\ \A j \in 1..(i - 1) : tasks[j].status # "pending"
    /\ tasks' = [tasks EXCEPT ![i] = ProcessStart(tasks[i])]
    /\ completion_order' =
        IF tasks'[i].status \in {"done", "raised"}
        THEN Append(completion_order, i) ELSE completion_order
    /\ executed' =
        IF tasks'[i].status = "executing"
        THEN executed \cup {[dispatch |-> dispatches, tool_call |-> tasks[i].tool_call]}
        ELSE executed
    /\ UNCHANGED <<pc, content, tool_call_index_map, assistant_message,
                   chunk_count, arrived, rounds, tool_call_history, tool_messages,
                   dispatches, sink, choice_state>>
    /\ UNCHANGED resplitVars
    /\ UNCHANGED appVars
    /\ UNCHANGED toolVars

\* tool.execute of one call answers, at any time after it was entered.
TaskFinish(i) ==
    /\ tasks[i].status = "executing"
    /\ \E outcome \in ExecuteOutcomes(tasks[i].tool_call) :
        tasks' = [tasks EXCEPT ![i] = ProcessFinish(tasks[i], outcome)]
    /\ completion_order' = Append(completion_order, i)
    /\ UNCHANGED <<pc, content, tool_call_index_map, assistant_message,
                   chunk_count, arrived, rounds, tool_call_history, tool_messages,
                   dispatches, executed, sink, choice_state>>
    /\ UNCHANGED resplitVars
    /\ UNCHANGED appVars
    /\ UNCHANGED toolVars

\* agent.py:130-139, 32-46: gather returned; the assistant message and the tool
\* messages are appended to the history and handle_request calls itself, which
\* issues the next provider request.
GatherReturns ==
    /\ pc = "gather"
    /\ GatherReady(tasks)
    /\ tool_messages' = GatherResults(tasks, completion_order)
    /\ tool_call_history' =
        ExtendHistory(tool_call_history, assistant_message, tool_messages')
    /\ rounds' = rounds + 1
    /\ pc' = "create"
    /\ UNCHANGED <<content, tool_call_index_map, assistant_message, chunk_count,
                   arrived, tasks, dispatches, completion_order, executed, sink,
                   choice_state>>
    /\ UNCHANGED resplitVars
    /\ UNCHANGED appVars
    /\ UNCHANGED toolVars

\* agent.py:130: gather raises the exception of a coroutine; it leaves
\* handle_request. The other coroutines keep running.
GatherRaisesOut ==
    /\ pc = "gather"
    /\ GatherRaises(tasks)
    /\ pc' = "failed_dispatch"
    /\ UNCHANGED <<content, tool_call_index_map, assistant_message, chunk_count,
                   arrived, rounds, tool_call_history, tasks, tool_messages,
                   dispatches, completion_order, executed, sink, choice_state>>
    /\ UNCHANGED resplitVars
    /\ UNCHANGED appVars
    /\ UNCHANGED toolVars

Next ==
    \/ HandleRequest
    \/ ProviderResponds
    \/ ProviderFails
    \/ StreamChunk
    \/ FinalizeWithToolCalls
    \/ FinalizeFinal
    \/ \E i \in 1..Len(tasks) : TaskStart(i)
    \/ \E i \in 1..Len(tasks) : TaskFinish(i)
    \/ GatherReturns
    \/ GatherRaisesOut

Spec == Init /\ [][Next]_vars

-----------------------------------------------------------------------------
(* SpecLoop: one request over more rounds, agent.py:32-144 *)

\* Provider rounds of one request in SpecLoop.
MaxLoopRounds == 3

\* Longest provider stream of one turn in SpecLoop.
MaxLoopTurnChunks == 2

\* The chunks of the provider in SpecLoop: a text increment, a whole call of
\* the document-search tool in either slot, and a call of the image tool with
\* a truncated argument text.
LoopDeltas ==
    { ToolCallDelta(i, CallIdOf(i), Function(<<"rag_search">>, <<"{", "}">>)) :
        i \in Slots }
        \cup { ToolCallDelta(0, CallIdOf(0), Function(<<"generate_image">>, <<"{">>)) }

LoopToolChunks == { Chunk(Empty, <<d>>) : d \in LoopDeltas }

\* The provider of SpecLoop asks for tools only before the last round.
LoopStreamChunk ==
    /\ chunk_count < MaxLoopTurnChunks
    /\ ConsumeChunk(TextChunks \cup
                        (IF rounds < MaxLoopRounds THEN LoopToolChunks ELSE {}),
                    TRUE)

LoopNext ==
    \/ HandleRequest
    \/ ProviderResponds
    \/ ProviderFails
    \/ LoopStreamChunk
    \/ FinalizeWithToolCalls
    \/ FinalizeFinal
    \/ \E i \in 1..Len(tasks) : TaskStart(i)
    \/ \E i \in 1..Len(tasks) : TaskFinish(i)
    \/ GatherReturns
    \/ GatherRaisesOut

SpecLoop == Init /\ [][LoopNext]_vars

\* The event loop runs every coroutine that is ready (handle_request, the
\* coroutines of a gather, the awaiter of a finished gather); the provider call
\* returns or raises, every provider stream ends and every tool.execute that
\* was entered answers.
FairLoop ==
    /\ SpecLoop
    /\ WF_vars(HandleRequest)
    /\ WF_vars(ProviderResponds \/ ProviderFails)
    /\ WF_vars(FinalizeWithToolCalls)
    /\ WF_vars(FinalizeFinal)
    /\ WF_vars(\E i \in 1..Len(tasks) : TaskStart(i))
    /\ WF_vars(\E i \in 1..Len(tasks) : TaskFinish(i))
    /\ WF_vars(GatherReturns)
    /\ WF_vars(GatherRaisesOut)

-----------------------------------------------------------------------------
(* SpecText: the text of the turns of one request, agent.py:56-70, 111-144 *)

\* Provider rounds of one request in SpecText.
MaxTextRounds == 2

\* Longest provider stream of one turn in SpecText.
MaxTextTurnChunks == 3

\* Text increments of the provider in SpecText.
TurnTextIncs == { <<"a", "b">>, <<"c">> }

\* The chunks of the provider in SpecText: either text increment, a whole call
\* of the document-search tool, and a call of the image tool with a truncated
\* argument text.
TurnTextChunks == { Chunk(t, << >>) : t \in TurnTextIncs }

TurnToolChunks ==
    { Chunk(Empty, <<ToolCallDelta(0, CallIdOf(0), Function(n, a))>>) :
        <<n, a>> \in { << <<"rag_search">>, <<"{", "}">> >>,
                       << <<"generate_image">>, <<"{">> >> } }

\* The provider of SpecText asks for tools only before the last round.
TextStreamChunk ==
    /\ chunk_count < MaxTextTurnChunks
    /\ ConsumeChunk(TurnTextChunks \cup
                        (IF rounds < MaxTextRounds THEN TurnToolChunks ELSE {}),
                    TRUE)

TextNext ==
    \/ HandleRequest
    \/ ProviderResponds
    \/ ProviderFails
    \/ TextStreamChunk
    \/ FinalizeWithToolCalls
    \/ FinalizeFinal
    \/ \E i \in 1..Len(tasks) : TaskStart(i)
    \/ \E i \in 1..Len(tasks) : TaskFinish(i)
    \/ GatherReturns
    \/ GatherRaisesOut

SpecText == Init /\ [][TextNext]_vars

-----------------------------------------------------------------------------
(* SpecApp: concurrent requests on one application object, app.py:32-132 *)

\* A tool of the registry: its name and the constructor that made it.
Tool(n, o) == [name |-> n, origin |-> o]

NoTool == Tool(Empty, "none")

\* app.py:58-73: the tools _create_tools constructs itself, in list order (the
\* file tool declares its name outside task/agent.py and task/app.py).
BuiltinTools ==
    << Tool(<<"file_content_extraction">>, "files"),
       Tool(<<"generate_image">>, "image"),
       Tool(<<"rag_search">>, "rag") >>

\* mcp_client.py:65-83: the tool names the server at :8051 may list; the names
\* are the server's own.
McpOffers == { << <<"search">> >>, << <<"rag_search">> >> }

\* app.py:46-48: one MCPTool per listed model, named after it (mcp_tool.py:50-53).
McpTools(offer) == [k \in 1..Len(offer) |-> Tool(offer[k], "mcp")]

\* app.py:84-89: the interpreter tool, named after the server's execute_code.
InterpreterTool == Tool(<<"execute_code">>, "interpreter")

\* agent.py:28: {tool.name: tool for tool in tools}; a dict keeps a key at the
\* position of its first insertion and the value of its last.
RECURSIVE ToolsDict(_)
ToolsDict(tools) ==
    IF tools = << >> THEN << >>
    ELSE LET d == ToolsDict(SubSeq(tools, 1, Len(tools) - 1))
             t == tools[Len(tools)]
         IN IF \E p \in 1..Len(d) : d[p].name = t.name
            THEN [p \in 1..Len(d) |-> IF d[p].name = t.name THEN t ELSE d[p]]
            ELSE Append(d, t)

\* agent.py:163: self._tools_dict.get(tool_name).
DictGet(d, n) ==
    IF \E p \in 1..Len(d) : d[p].name = n
    THEN d[CHOOSE p \in 1..Len(d) : d[p].name = n]
    ELSE NoTool

\* agent.py:42: the schemas sent to the provider, one per tool of the list.
ToolSchemas(tools) == [k \in 1..Len(tools) |-> tools[k].name]

\* agent.py:18-30: the fields of a constructed agent.
NewAgent(tools) ==
    [tools |-> tools, tools_dict |-> ToolsDict(tools), state |-> << >>]

AgentFor_shared(held) == 1

\* app.py:107: every chat_completion constructs an agent of its own; the new
\* object is none of the objects held so far.
AgentFor(held) == Len(held) + 1

\* The objects held after constructing `obj` as object a.
Construct(held, a, obj) ==
    [k \in 1..(IF a > Len(held) THEN a ELSE Len(held)) |->
        IF k = a THEN obj ELSE held[k]]

\* The turn and the tool message request r produces in its turn t.
AppMessage(r, t) == [role |-> "assistant", request |-> r, turn |-> t]

AppResult(r, t) == [role |-> "tool", request |-> r, turn |-> t]

\* app.py:95-114: chat_completion is entered. With no tools on the application
\* object it calls _create_tools, which runs to the await of the MCP tools
\* (app.py:58-77); otherwise it constructs the agent and enters handle_request,
\* which runs to the await of the provider (agent.py:46).
AppChatCompletion(r) ==
    /\ request[r].pc = "idle"
    /\ IF self_tools = << >>
       THEN /\ request' = [request EXCEPT ![r].pc = "mcp", ![r].tools = BuiltinTools]
            /\ builds' = builds + 1
            /\ UNCHANGED <<self_tools, agents>>
       ELSE /\ LET a == AgentFor(agents) IN
                /\ agents' = Construct(agents, a, NewAgent(self_tools))
                /\ request' = [request EXCEPT ![r].pc = "create", ![r].agent = a]
            /\ UNCHANGED <<self_tools, builds>>
    /\ UNCHANGED agentVars
    /\ UNCHANGED toolVars

\* app.py:76-84: the MCP server listed its tools, or the attempt raised and was
\* caught; _create_tools goes on to the await of the interpreter tool.
AppMcpAnswers(r) ==
    /\ request[r].pc = "mcp"
    /\ \E offer \in McpOffers \cup {<< >>} :
        request' = [request EXCEPT ![r].pc = "interpreter",
                                   ![r].tools = @ \o McpTools(offer)]
    /\ UNCHANGED <<self_tools, builds, agents>>
    /\ UNCHANGED agentVars
    /\ UNCHANGED toolVars

\* app.py:84-114: the interpreter tool was created, or the attempt raised and
\* was caught; _create_tools returns, its list is assigned to self.tools, the
\* agent is constructed over it and handle_request entered.
AppInterpreterAnswers(r) ==
    /\ request[r].pc = "interpreter"
    /\ \E created \in BOOLEAN :
        LET tools == IF created THEN Append(request[r].tools, InterpreterTool)
                     ELSE request[r].tools
            a == AgentFor(agents)
        IN /\ self_tools' = tools
           /\ agents' = Construct(agents, a, NewAgent(tools))
           /\ request' = [request EXCEPT ![r].pc = "create", ![r].tools = tools,
                                          ![r].agent = a]
    /\ UNCHANGED builds
    /\ UNCHANGED agentVars
    /\ UNCHANGED toolVars

\* agent.py:46-130: the provider answered with a turn that asks for a tool; the
\* dispatch is under way.
AppToolTurn(r) ==
    /\ request[r].pc = "create"
    /\ request[r].turns < MaxAppTurns
    /\ request' = [request EXCEPT ![r].pc = "gather", ![r].turns = @ + 1]
    /\ UNCHANGED <<self_tools, builds, agents>>
    /\ UNCHANGED agentVars
    /\ UNCHANGED toolVars

\* agent.py:130-139: the dispatch returned; the agent's history is extended
\* and the provider asked again.
AppDispatchReturns(r) ==
    /\ request[r].pc = "gather"
    /\ agents' = [agents EXCEPT ![request[r].agent].state =
                    ExtendHistory(@, AppMessage(r, request[r].turns),
                                  <<AppResult(r, request[r].turns)>>)]
    /\ request' = [request EXCEPT ![r].pc = "create"]
    /\ UNCHANGED <<self_tools, builds>>
    /\ UNCHANGED agentVars
    /\ UNCHANGED toolVars

\* agent.py:141-144: the provider answered with a turn without tool calls; the
\* agent's state is set on the choice of the request.
AppFinalTurn(r) ==
    /\ request[r].pc = "create"
    /\ request' = [request EXCEPT ![r].pc = "done",
                                   ![r].published =
                                        Append(@, agents[request[r].agent].state)]
    /\ UNCHANGED <<self_tools, builds, agents>>
    /\ UNCHANGED agentVars
    /\ UNCHANGED toolVars

AppNext ==
    \E r \in Requests :
        \/ AppChatCompletion(r)
        \/ AppMcpAnswers(r)
        \/ AppInterpreterAnswers(r)
        \/ AppToolTurn(r)
        \/ AppDispatchReturns(r)
        \/ AppFinalTurn(r)

SpecApp == Init /\ [][AppNext]_vars

-----------------------------------------------------------------------------
(* SpecMcp: coroutines sharing one MCPClient, mcp_client.py:12-167 *)

nonMcpVars == <<agentVars, appVars, resourceVars, interpreterVars, ragVars, imageVars, outputVars>>

\* The operations of the client that use the session.
SessionOps == {"get_tools", "call_tool", "get_resource"}

McpOps == {"connect", "close"} \cup SessionOps

Connected_never(s) == FALSE

\* mcp_client.py:36: `self.session is not None`.
Connected(s) == s # None

ClientFields(s, sc, tc) ==
    [session |-> s, session_context |-> sc, streams_context |-> tc]

ConnectCleanup_keeps_session(fields) ==
    ClientFields(fields.session, None, None)

\* mcp_client.py:59-61: the three fields after a failed connect.
ConnectCleanup(fields) == ClientFields(None, None, None)

CloseReset_keeps_session(fields) ==
    ClientFields(fields.session, None, None)

\* mcp_client.py:155-157: the three fields at the end of close.
CloseReset(fields) == ClientFields(None, None, None)

\* Calls made on the client so far by the callers of S.
RECURSIVE CallsMade(_)
CallsMade(S) ==
    IF S = {} THEN 0
    ELSE LET c == CHOOSE x \in S : TRUE
         IN caller[c].calls + CallsMade(S \ {c})

\* The call of caller c ends with `outcome`.
Ended(c, outcome) ==
    [caller EXCEPT ![c].pc = "idle", ![c].outcome = outcome]

\* mcp_client.py:41-44: connect found no session: a transport context is
\* created, stored, and its entry awaited.
ConnectStart(c, op) ==
    /\ transports' = Append(transports, [state |-> "entering"])
    /\ streams_context' = Len(transports) + 1
    /\ caller' = [caller EXCEPT ![c].pc = "enter_streams", ![c].op = op,
                                ![c].calls = @ + 1, ![c].outcome = "none",
                                ![c].transport = Len(transports) + 1]
    /\ UNCHANGED <<session, session_context, sessions, closes>>

\* mcp_client.py:71, 91, 118: `await self.session.<operation>(...)`, issued on
\* whatever self.session holds now; on None the attribute access raises.
Issue(c, callers) ==
    IF session' # None
    THEN [callers EXCEPT ![c].pc = "operating", ![c].session = session']
    ELSE [callers EXCEPT ![c].pc = "idle", ![c].outcome = "no_session"]

\* mcp_client.py:55-62: an awaited step of connect raised; the fields are
\* reset and the exception raised to the caller of connect.
ConnectFails(c) ==
    LET fields == ConnectCleanup(ClientFields(session, session_context,
                                               streams_context))
    IN /\ session' = fields.session
       /\ session_context' = fields.session_context
       /\ streams_context' = fields.streams_context
       /\ caller' = Ended(c, "raised")
       /\ UNCHANGED closes

\* mcp_client.py:154-157: close resets the fields and returns.
CloseEnds(c, callers) ==
    LET fields == CloseReset(ClientFields(session, session_context,
                                           streams_context))
    IN /\ session' = fields.session
       /\ session_context' = fields.session_context
       /\ streams_context' = fields.streams_context
       /\ caller' = [callers EXCEPT ![c].pc = "idle", ![c].outcome = "returned"]

\* mcp_client.py:147-157: the second half of close: the exit of the transport
\* context is awaited when there is one, otherwise close ends.
CloseStreams(c, callers) ==
    IF streams_context # None
    THEN /\ caller' = [callers EXCEPT ![c].pc = "exit_streams",
                                      ![c].transport = streams_context]
         /\ UNCHANGED <<session, session_context, streams_context>>
    ELSE CloseEnds(c, callers)

\* mcp_client.py:138-143: close is entered: the exit of the session context is
\* awaited when there is one.
CloseStart(c) ==
    LET callers == [caller EXCEPT ![c].op = "close", ![c].calls = @ + 1,
                                  ![c].outcome = "none",
                                  ![c].teardown_errors = 0]
    IN /\ closes' = closes + 1
       /\ IF session_context # None
          THEN /\ caller' = [callers EXCEPT ![c].pc = "exit_session",
                                            ![c].session = session_context]
               /\ UNCHANGED <<session, session_context, streams_context>>
          ELSE CloseStreams(c, callers)
       /\ UNCHANGED <<transports, sessions>>

\* A coroutine calls the client and runs to its first suspension:
\* connect (33-44), an operation on the session (65-71, 85-91, 111-118) or
\* close (138-157).
McpCall(c) ==
    /\ caller[c].pc = "idle"
    /\ CallsMade(Callers) < MaxCalls
    /\ \E op \in McpOps :
        IF op = "close" THEN CloseStart(c)
        ELSE IF op = "connect"
        THEN IF Connected(session)
             THEN /\ caller' = [caller EXCEPT ![c].op = op, ![c].calls = @ + 1,
                                              ![c].outcome = "returned"]
                  /\ UNCHANGED <<session, session_context, streams_context,
                                 transports, sessions, closes>>
             ELSE ConnectStart(c, op)
        ELSE IF session = None
        THEN ConnectStart(c, op)
        ELSE /\ UNCHANGED <<session, session_context, streams_context,
                            transports, sessions, closes>>
             /\ caller' = Issue(c, [caller EXCEPT ![c].op = op, ![c].calls = @ + 1,
                                                  ![c].outcome = "none"])
    /\ UNCHANGED nonMcpVars

\* mcp_client.py:44-50: the transport entry answered: the session object is
\* created over its streams, stored, and its entry awaited; or it raised.
StreamsEntered(c) ==
    /\ caller[c].pc = "enter_streams"
    /\ \E ok \in BOOLEAN :
        IF ok
        THEN /\ transports' = [transports EXCEPT ![caller[c].transport].state = "entered"]
             /\ sessions' = Append(sessions, [state |-> "entering",
                                              transport |-> caller[c].transport])
             /\ session_context' = Len(sessions) + 1
             /\ caller' = [caller EXCEPT ![c].pc = "enter_session",
                                         ![c].session = Len(sessions) + 1]
             /\ UNCHANGED <<session, streams_context, closes>>
        ELSE /\ transports' = [transports EXCEPT ![caller[c].transport].state = "failed"]
             /\ ConnectFails(c)
             /\ UNCHANGED sessions
    /\ UNCHANGED nonMcpVars

\* mcp_client.py:50-53: the session entry answered: the session is assigned
\* to self.session and the handshake awaited; or it raised.
SessionEntered(c) ==
    /\ caller[c].pc = "enter_session"
    /\ \E ok \in BOOLEAN :
        IF ok
        THEN /\ sessions' = [sessions EXCEPT ![caller[c].session].state = "entered"]
             /\ session' = caller[c].session
             /\ caller' = [caller EXCEPT ![c].pc = "initialize"]
             /\ UNCHANGED <<session_context, streams_context, closes>>
        ELSE /\ sessions' = [sessions EXCEPT ![caller[c].session].state = "failed"]
             /\ ConnectFails(c)
    /\ UNCHANGED transports
    /\ UNCHANGED nonMcpVars

\* mcp_client.py:53-54, then 71, 91, 118: the handshake answered: connect
\* returns and the operation that called it is issued; or it raised.
SessionInitialized(c) ==
    /\ caller[c].pc = "initialize"
    /\ \E ok \in BOOLEAN :
        IF ok
        THEN /\ sessions' = [sessions EXCEPT ![caller[c].session].state = "initialized"]
             /\ UNCHANGED <<session, session_context, streams_context, closes>>
             /\ caller' = IF caller[c].op = "connect"
                          THEN Ended(c, "returned")
                          ELSE Issue(c, caller)
        ELSE /\ sessions' = [sessions EXCEPT ![caller[c].session].state = "failed"]
             /\ ConnectFails(c)
    /\ UNCHANGED transports
    /\ UNCHANGED nonMcpVars

\* mcp_client.py:71-83, 91-109, 118-136: the session answered the operation, or
\* raised.
OperationAnswers(c) ==
    /\ caller[c].pc = "operating"
    /\ \E outcome \in {"returned", "raised"} : caller' = Ended(c, outcome)
    /\ UNCHANGED <<session, session_context, streams_context, transports,
                   sessions, closes>>
    /\ UNCHANGED nonMcpVars

\* mcp_client.py:143-150: the exit of the session context answered or raised
\* (caught, 144-145); close goes on with the transport context.
SessionExited(c) ==
    /\ caller[c].pc = "exit_session"
    /\ \E ok \in BOOLEAN :
        /\ sessions' = [sessions EXCEPT ![caller[c].session].state =
                            IF ok THEN "exited" ELSE "exit_failed"]
        /\ CloseStreams(c, [caller EXCEPT ![c].teardown_errors =
                                            IF ok THEN @ ELSE @ + 1])
    /\ UNCHANGED <<transports, closes>>
    /\ UNCHANGED nonMcpVars

\* mcp_client.py:150-157: the exit of the transport context answered or raised
\* (caught, 151-152); close ends.
StreamsExited(c) ==
    /\ caller[c].pc = "exit_streams"
    /\ \E ok \in BOOLEAN :
        /\ transports' = [transports EXCEPT ![caller[c].transport].state =
                            IF ok THEN "exited" ELSE "exit_failed"]
        /\ CloseEnds(c, [caller EXCEPT ![c].teardown_errors =
                                         IF ok THEN @ ELSE @ + 1])
    /\ UNCHANGED <<sessions, closes>>
    /\ UNCHANGED nonMcpVars

McpNext ==
    \E c \in Callers :
        \/ McpCall(c)
        \/ StreamsEntered(c)
        \/ SessionEntered(c)
        \/ SessionInitialized(c)
        \/ OperationAnswers(c)
        \/ SessionExited(c)
        \/ StreamsExited(c)

SpecMcp == Init /\ [][McpNext]_vars

-----------------------------------------------------------------------------
(* What the stream of a turn says about each slot (read off the history     *)
(* `arrived`, independently of the fold)                                    *)

RECURSIVE DeltasOf(_)
DeltasOf(chunks) ==
    IF chunks = << >> THEN << >>
    ELSE (IF Head(chunks).has_delta THEN Head(chunks).tool_calls ELSE << >>)
            \o DeltasOf(Tail(chunks))

\* Positions of the deltas that assign an id to slot i.
IdPositions(ds, i) == { k \in 1..Len(ds) : ds[k].index = i /\ ds[k].id # NoId }

Max(S) == CHOOSE m \in S : \A n \in S : n <= m
Min(S) == CHOOSE m \in S : \A n \in S : m <= n

\* Concatenation, in arrival order, of the argument increments tagged with
\* slot i among the deltas at positions from..to.
RECURSIVE ArgsTagged(_, _, _, _)
ArgsTagged(ds, i, from, to) ==
    IF from > to THEN Empty
    ELSE (IF ds[from].index = i /\ ds[from].function.present
          THEN ds[from].function.arguments ELSE Empty)
            \o ArgsTagged(ds, i, from + 1, to)

\* The argument increments of slot i that arrived with or after its id (the id
\* of the finalized record: the last one assigned to the slot).
ArgsSinceId(ds, i) == ArgsTagged(ds, i, Max(IdPositions(ds, i)), Len(ds))

\* The argument increments of slot i that arrived before any id of the slot.
ArgsBeforeId(ds, i) ==
    IF IdPositions(ds, i) = {} THEN ArgsTagged(ds, i, 1, Len(ds))
    ELSE ArgsTagged(ds, i, 1, Min(IdPositions(ds, i)) - 1)

IsPrefix(s, t) == Len(s) <= Len(t) /\ SubSeq(t, 1, Len(s)) = s

\* The stream assigns an id to a slot that already has a record.
HasDuplicateId(ds) == \E i \in Slots : Cardinality(IdPositions(ds, i)) > 1

-----------------------------------------------------------------------------
(* Claims about the aggregator *)

SameTextIdsArguments(m, r) ==
    /\ r.content = m.content
    /\ Len(r.tool_calls) = Len(m.tool_calls)
    /\ \A p \in 1..Len(m.tool_calls) :
        /\ r.tool_calls[p].id = m.tool_calls[p].id
        /\ r.tool_calls[p].arguments = m.tool_calls[p].arguments

C8_DuplicateIdRejected ==
    HasDuplicateId(DeltasOf(arrived)) => pc = "raised"

\* C9: argument increments that arrive for a slot before any id was assigned to
\* it are kept: the finalized record of the slot starts with them.
C9_IncrementsBeforeIdKept ==
    pc = "finalized" =>
        \A p \in 1..Len(tool_call_index_map) :
            IsPrefix(ArgsBeforeId(DeltasOf(arrived), tool_call_index_map[p].index),
                     assistant_message.tool_calls[p].arguments)

\* C10: the argument_text of each slot is the concatenation, in arrival order,
\* of exactly the argument increments tagged with that slot that arrived with or
\* after the slot's id, for any interleaving of the slots; a slot without an id
\* has no record.
C10_ArgumentsPerSlot ==
    /\ \A i \in Slots :
        IndexPos(tool_call_index_map, i) # 0 <=> IdPositions(DeltasOf(arrived), i) # {}
    /\ \A p \in 1..Len(tool_call_index_map) :
        tool_call_index_map[p].arguments =
            ArgsSinceId(DeltasOf(arrived), tool_call_index_map[p].index)
    /\ pc = "finalized" =>
        /\ Len(assistant_message.tool_calls) = Len(tool_call_index_map)
        /\ \A p \in 1..Len(tool_call_index_map) :
            assistant_message.tool_calls[p].arguments =
                ArgsSinceId(DeltasOf(arrived), tool_call_index_map[p].index)

\* Two slots, interleaved: slot 0's arguments arrive around slot 1's.
C10_Witness ==
    /\ pc = "finalized"
    /\ Len(assistant_message.tool_calls) = 2
    /\ Len(arrived) = 3
    /\ LET ds == DeltasOf(arrived) IN
        /\ Len(ds) = 3
        /\ ds[1].index = 0 /\ ds[1].function.arguments # Empty
        /\ ds[2].index = 1 /\ ds[2].function.arguments # Empty
        /\ ds[3].index = 0 /\ ds[3].id = NoId /\ ds[3].function.arguments # Empty
        /\ ds[3].function.arguments # ds[1].function.arguments

-----------------------------------------------------------------------------
(* Claims about the dispatcher and the turn loop *)

\* The last dispatch of the request has returned to handle_request.
DispatchReturned == dispatches > 0 /\ pc \notin {"gather", "failed_dispatch"}

\* C1: whatever the order in which the n executions of a turn complete, the
\* dispatch returns n results, and result i carries the id of the i-th tool
\* call of the turn.
C1_ResultsFollowCallOrder ==
    DispatchReturned =>
        /\ Len(tool_messages) = Len(tasks)
        /\ Len(tool_messages) > 0
        /\ \A i \in 1..Len(tasks) :
            /\ tool_messages[i].role = "tool"
            /\ tool_messages[i].tool_call_id = tasks[i].tool_call.id
        /\ \A i \in 1..Len(tasks) :
            tool_call_history[Len(tool_call_history) - Len(tasks)].tool_calls[i].id
                = tool_messages[i].tool_call_id

\* The second call completed before the first one.
C1_Witness ==
    /\ DispatchReturned
    /\ Len(tool_messages) = 2
    /\ completion_order = <<2, 1>>
    /\ tasks[1].tool_call.name \in ToolNames

\* C2: the stream of a turn ends either in exactly one dispatch over the turn's
\* tool calls (the list is non-empty) or, without any dispatch, in the end of
\* the loop (the list is empty); nothing else starts a dispatch; a dispatch that
\* returns is followed by exactly one provider request, and provider requests
\* are issued only on entry and after a returned dispatch. (A dispatch leaves
\* handle_request without a further request only when a coroutine raised.)
C2_TurnStep ==
    /\ (pc = "stream" /\ pc' # "stream") =>
        IF tool_call_index_map # << >>
        THEN /\ pc' = "gather"
             /\ dispatches' = dispatches + 1
             /\ Len(tasks') = Len(tool_call_index_map)
             /\ rounds' = rounds
        ELSE /\ pc' = "done"
             /\ dispatches' = dispatches
             /\ rounds' = rounds
    /\ dispatches' # dispatches => pc = "stream"
    /\ (pc = "gather" /\ pc' # "gather") =>
        \/ /\ pc' = "create"
           /\ \A i \in 1..Len(tasks) : tasks[i].status = "done"
           /\ rounds' = rounds + 1
           /\ dispatches' = dispatches
        \/ /\ pc' = "failed_dispatch"
           /\ \E i \in 1..Len(tasks) : tasks[i].status = "raised"
           /\ rounds' = rounds
           /\ dispatches' = dispatches
    /\ rounds' # rounds => pc \in {"start", "gather"} /\ pc' = "create"
    /\ pc = "done" => pc' = "done" /\ rounds' = rounds /\ dispatches' = dispatches

\* C2: every step of a request is such a step.
C2_OneDispatchOneTurn == [][C2_TurnStep]_vars

\* A tool-requesting turn, its dispatch, and the final turn after it.
C2_Witness ==
    /\ pc = "done"
    /\ rounds = 2
    /\ dispatches = 1
    /\ assistant_message.content # Empty

\* C3: an exception raised while one tool call is processed becomes an error
\* result of that call; no coroutine of the dispatch ends with an exception and
\* no exception leaves the dispatch.
C3_ExceptionsBecomeResults ==
    /\ pc # "failed_dispatch"
    /\ \A i \in 1..Len(tasks) : tasks[i].status # "raised"

\* C4: for every registered tool, shown in the stage or not, a call with an
\* argument text that does not parse ends with an error result for that call.
C4_ParseFailureBecomesResult ==
    \A i \in 1..Len(tasks) :
        ( /\ tasks[i].tool_call.name \in ToolNames
          /\ ~JsonLoadsOk(tasks[i].tool_call.arguments)
          /\ tasks[i].status \notin {"pending", "executing"} )
        => /\ tasks[i].status = "done"
           /\ tasks[i].result.role = "tool"
           /\ tasks[i].result.tool_call_id = tasks[i].tool_call.id

\* t occurs in s as a run of consecutive tokens.
ContainsSeq(s, t) ==
    \E k \in 1..(Len(s) - Len(t) + 1) : SubSeq(s, k, k + Len(t) - 1) = t

\* C5: a call of a name that is not in the registry is answered with a result
\* that carries the call's id and whose content contains the name and
\* "not found"; no capability is executed for it; and every other call of the
\* turn gets a result of its own execution, which the dispatch returns.
C5_UnknownToolIsolated ==
    /\ \A i \in 1..Len(tasks) :
        (tasks[i].tool_call.name \notin ToolNames /\ tasks[i].status # "pending")
        => /\ tasks[i].status = "done"
           /\ tasks[i].result.tool_call_id = tasks[i].tool_call.id
           /\ ContainsSeq(tasks[i].result.content, tasks[i].tool_call.name)
           /\ ContainsSeq(tasks[i].result.content, <<"not found">>)
           /\ [dispatch |-> dispatches, tool_call |-> tasks[i].tool_call] \notin executed
    /\ \A j \in 1..Len(tasks) :
        (tasks[j].tool_call.name \in ToolNames /\ tasks[j].status = "done")
        => /\ tasks[j].result \in
                { BaseTool_execute(tasks[j].tool_call, o) :
                    o \in ExecuteOutcomes(tasks[j].tool_call) }
           /\ [dispatch |-> dispatches, tool_call |-> tasks[j].tool_call] \in executed
           /\ DispatchReturned => tool_messages[j] = tasks[j].result

\* An unknown call first, a registered tool second, and the dispatch returned.
C5_Witness ==
    /\ DispatchReturned
    /\ Len(tasks) = 2
    /\ tasks[1].tool_call.name \notin ToolNames
    /\ tasks[2].tool_call.name \in ToolNames
    /\ tool_messages[2] = BaseTool_execute(tasks[2].tool_call, "ok")

\* C6: a step that issues the next provider request of the request, or that
\* extends the history, is taken only when every tool call of the current turn
\* has completed.
C6_BarrierStep ==
    ((rounds' # rounds /\ pc # "start") \/ tool_call_history' # tool_call_history)
    => /\ Len(tasks) = Len(assistant_message.tool_calls)
       /\ Len(tasks) > 0
       /\ \A i \in 1..Len(tasks) : tasks[i].status = "done"

\* C6: every step of a request keeps the barrier.
C6_Barrier == [][C6_BarrierStep]_vars

\* Two tools were executing at once, and the next request was issued.
C6_Witness ==
    /\ pc = "create"
    /\ rounds = 2
    /\ Len(tasks) = 2
    /\ Cardinality({e \in executed : e.dispatch = dispatches}) = 2
    /\ Len(tool_call_history) = 3

-----------------------------------------------------------------------------
(* The conversation loop (SpecLoop) *)

\* The history changes only when a dispatch returns, and then by the turn
\* that asked for the tools followed by one tool message per call, in the
\* order of the turn's tool_calls; what it held stays in front, unchanged.
C11_HistoryStep ==
    /\ IsPrefix(tool_call_history, tool_call_history')
    /\ tool_call_history' # tool_call_history =>
        /\ pc = "gather" /\ pc' = "create"
        /\ Len(tool_call_history') =
            Len(tool_call_history) + 1 + Len(assistant_message.tool_calls)
        /\ tool_call_history'[Len(tool_call_history) + 1] = assistant_message
        /\ \A k \in 1..Len(assistant_message.tool_calls) :
            LET entry == tool_call_history'[Len(tool_call_history) + 1 + k] IN
            /\ entry.role = "tool"
            /\ entry.tool_call_id = assistant_message.tool_calls[k].id
    /\ (pc = "gather" /\ pc' = "create") => tool_call_history' # tool_call_history

\* C11: after each tool-requesting turn whose dispatch returns, the tool-call
\* history is extended by exactly that assistant turn followed by its tool
\* results in the order of the originating tool_calls; entries already in the
\* history are never removed, reordered or modified (append-only).
C11_AppendOnly == [][C11_HistoryStep]_vars

\* A second tool-requesting turn with two calls, the second of which completed
\* first, has been appended behind the entries of the first turn.
C11_Witness ==
    /\ pc = "create"
    /\ rounds = 3
    /\ Len(tool_call_history) = 5
    /\ Len(assistant_message.tool_calls) = 2
    /\ completion_order = <<2, 1>>

\* The assistant turns recorded in a history: the tool-requesting turns whose
\* dispatch returned.
AssistantTurns(history) ==
    Cardinality({ k \in 1..Len(history) : history[k].role = "assistant" })

\* C12: the number of provider round trips of a request is one plus the number
\* of its tool-requesting turns (while a dispatch is under way, or has raised,
\* the round trip that follows it has not been made); a request that ended
\* without a tool-requesting turn made exactly one round trip and no dispatch.
C12_RoundTrips ==
    /\ pc = "start" => rounds = 0 /\ dispatches = 0
    /\ pc \in {"create", "stream", "done", "failed_provider"} =>
        /\ rounds = dispatches + 1
        /\ dispatches = AssistantTurns(tool_call_history)
    /\ pc \in {"gather", "failed_dispatch"} =>
        /\ rounds = dispatches
        /\ dispatches = AssistantTurns(tool_call_history) + 1
    /\ pc = "done" => rounds = 1 + AssistantTurns(tool_call_history)
    /\ (pc = "done" /\ AssistantTurns(tool_call_history) = 0) =>
        /\ rounds = 1
        /\ dispatches = 0
        /\ tasks = << >>
        /\ executed = {}

\* A request that ended after two tool-requesting turns and three round trips.
C12_Witness ==
    /\ pc = "done"
    /\ rounds = 3
    /\ dispatches = 2
    /\ AssistantTurns(tool_call_history) = 2

\* C13: with a provider that stops asking for tools (it does, in its last
\* round) and whose calls do not fail, every stream and every tool execution
\* terminating (FairLoop), handle_request eventually reaches Done; the state is
\* published to the choice exactly once, when Done is reached and not before.
C13_ReachesDoneAndPublishesOnce ==
    /\ ([](pc # "failed_provider")) => <>(pc = "done")
    /\ [](Len(choice_state) = IF pc = "done" THEN 1 ELSE 0)

\* A turn that asks for a tool never ends the request, at whatever depth: the
\* stream of such a turn closes into a dispatch, Done is entered only from the
\* stream of a turn without tool calls, and every provider request after the
\* first follows a tool-requesting turn and finds a strictly longer history
\* (at least the turn and one tool message per round).
C14_LoopStep ==
    /\ (pc = "stream" /\ pc' # "stream" /\ tool_call_index_map # << >>) =>
        /\ pc' = "gather"
        /\ tasks' # << >>
    /\ (pc # "done" /\ pc' = "done") =>
        /\ pc = "stream"
        /\ assistant_message'.tool_calls = << >>
    /\ (rounds >= 1 /\ rounds' # rounds) =>
        /\ rounds' = rounds + 1
        /\ assistant_message.tool_calls # << >>
        /\ Len(tool_call_history') > Len(tool_call_history)
    /\ rounds' >= 1 => Len(tool_call_history') >= 2 * (rounds' - 1)

\* C14: there is no bound on loop depth: as long as every turn returned by the
\* provider requests at least one tool, handle_request does not reach Done,
\* and the tool-call history grows strictly with every round.
C14_NoDepthBound == [][C14_LoopStep]_vars

\* Every round before the last one the provider is given in SpecLoop asked for
\* a tool, and the request is still going on, with a history grown each round.
C14_Witness ==
    /\ rounds = MaxLoopRounds
    /\ pc = "stream"
    /\ dispatches = MaxLoopRounds - 1
    /\ Len(tool_call_history) >= 2 * (MaxLoopRounds - 1)
    /\ choice_state = << >>

\* When the provider call of a round does not answer with a stream, the request
\* is left with the exception: nothing of the round is dispatched, the history
\* and the choice's state stay as they were, and the request stays failed.
C17_ProviderFailureStep ==
    /\ (pc = "create" /\ ~ProviderResponds /\ pc' # pc) =>
        /\ pc' = "failed_provider"
        /\ tool_call_history' = tool_call_history
        /\ dispatches' = dispatches
        /\ tasks' = tasks
        /\ executed' = executed
        /\ choice_state' = choice_state
    /\ pc = "failed_provider" =>
        /\ pc' = "failed_provider"
        /\ tool_call_history' = tool_call_history
        /\ dispatches' = dispatches
    /\ pc' = "failed_provider" =>
        /\ choice_state' = << >>
        /\ rounds' = dispatches' + 1
        /\ GatherReady(tasks')

\* C17: a failure of the chat-provider call in any round propagates to the
\* caller of handle_request: no dispatch happens for that round, the history is
\* left as it was before the round, and the state is never published.
C17_ProviderFailurePropagates == [][C17_ProviderFailureStep]_vars

\* The provider call failed in the third round, after two recorded turns.
C17_Witness ==
    /\ pc = "failed_provider"
    /\ rounds = 3
    /\ dispatches = 2
    /\ AssistantTurns(tool_call_history) = 2
    /\ choice_state = << >>

-----------------------------------------------------------------------------
(* The text of the turns (SpecText) *)

\* The text increments of a logged stream, in arrival order.
RECURSIVE TextIncrements(_)
TextIncrements(chunks) ==
    IF chunks = << >> THEN << >>
    ELSE (IF Head(chunks).has_delta /\ Head(chunks).content # Empty
          THEN <<Head(chunks).content>> ELSE << >>)
            \o TextIncrements(Tail(chunks))

\* Concatenation of a sequence of texts.
RECURSIVE Flatten(_)
Flatten(texts) ==
    IF texts = << >> THEN Empty ELSE Head(texts) \o Flatten(Tail(texts))

\* C15: the final message returned by handle_request carries exactly the text
\* of the terminal, tool-free turn (the concatenation of that turn's text
\* increments in arrival order) and no tool calls.
C15_FinalMessageIsLastTurnText ==
    pc = "done" =>
        /\ assistant_message.role = "assistant"
        /\ assistant_message.content = Flatten(TextIncrements(arrived))
        /\ assistant_message.tool_calls = << >>

\* A request returned "c" \o "ab" after an earlier turn that had text of its
\* own and asked for a tool.
C15_Witness ==
    /\ pc = "done"
    /\ rounds = 2
    /\ assistant_message.content = <<"c", "a", "b">>
    /\ tool_call_history # << >>
    /\ tool_call_history[1].content # Empty

\* The text of the assistant turns recorded in a history.
RECURSIVE HistoryText(_)
HistoryText(history) ==
    IF history = << >> THEN Empty
    ELSE (IF Head(history).role = "assistant" THEN Head(history).content ELSE Empty)
            \o HistoryText(Tail(history))

\* The text of the turn the request is in, or has just finalized, when that
\* turn is not (yet) recorded in the history.
CurrentTurnText ==
    IF pc = "stream" THEN content
    ELSE IF pc \in {"gather", "failed_dispatch", "done"} THEN assistant_message.content
    ELSE Empty

\* The step that consumes a chunk forwards its text increment, when it has a
\* non-empty one, behind what the sink received before; no other step touches
\* the sink; so the sink holds the text of all turns so far, in order.
C16_SinkStep ==
    /\ IF Len(arrived') = Len(arrived) + 1
       THEN LET chunk == arrived'[Len(arrived')] IN
            sink' = IF chunk.content # Empty THEN Append(sink, chunk.content) ELSE sink
       ELSE sink' = sink
    /\ Flatten(sink') = HistoryText(tool_call_history') \o CurrentTurnText'
    /\ pc' = "done" =>
        Flatten(sink') = HistoryText(tool_call_history') \o assistant_message'.content

\* C16: every non-empty text increment of every turn is forwarded to the
\* progress sink exactly once, in arrival order, before the next fragment is
\* consumed; the sink receives the text of all turns while the returned
\* message holds only the last turn's text.
C16_EveryIncrementForwarded == [][C16_SinkStep]_vars

\* The sink received "ab", "c" in the first turn and one more increment in the
\* last; the returned message holds the last only.
C16_Witness ==
    /\ pc = "done"
    /\ Len(sink) = 3
    /\ sink[1] = <<"a", "b">>
    /\ sink[2] = <<"c">>
    /\ assistant_message.content = sink[3]
    /\ HistoryText(tool_call_history) = <<"a", "b", "c">>

-----------------------------------------------------------------------------
(* Requests on one application object (SpecApp) *)

\* The history of the agent of request r.
HistoryOf(reqs, held, r) == held[reqs[r].agent].state

\* Request r is inside handle_request.
BeingProcessed(r) == request[r].pc \in {"create", "gather"}

\* The agent a request constructs starts with an empty history, and whatever
\* the history of a request's agent or the state it published holds was
\* produced by that request.
C18_OwnHistoryStep ==
    \A r \in Requests :
        /\ (request[r].agent = NoAgent /\ request'[r].agent # NoAgent) =>
            HistoryOf(request', agents', r) = << >>
        /\ request'[r].agent # NoAgent =>
            \A k \in 1..Len(HistoryOf(request', agents', r)) :
                HistoryOf(request', agents', r)[k].request = r
        /\ \A n \in 1..Len(request'[r].published) :
            \A k \in 1..Len(request'[r].published[n]) :
                request'[r].published[n][k].request = r

\* C18: each request owns its conversation history exclusively: every request
\* starts from an empty tool-call history, and under any interleaving of
\* concurrent requests no request's history ever contains a turn or tool
\* result produced by another request.
C18_HistoryOwnedByRequest == [][C18_OwnHistoryStep]_vars

\* Two requests are inside handle_request at once, each with a recorded turn.
C18_Witness ==
    /\ BeingProcessed(1) /\ BeingProcessed(2)
    /\ request[1].agent # request[2].agent
    /\ Len(HistoryOf(request, agents, 1)) = 2
    /\ Len(HistoryOf(request, agents, 2)) = 2

\* _create_tools is called at most once, and no step taken while a request is
\* inside handle_request calls it or assigns self.tools.
C19_BuiltOnceStep ==
    /\ builds' <= 1
    /\ (\E r \in Requests : BeingProcessed(r)) =>
        /\ builds' = builds
        /\ self_tools' = self_tools

\* C19: the capability table is built exactly once and is never rebuilt or
\* reassigned while any request is being processed, for any interleaving of
\* concurrent requests, several requests arriving before the first build has
\* finished included.
C19_TableBuiltOnce == [][C19_BuiltOnceStep]_vars

\* C20: capability names are unique in the registry: for every agent, the
\* name-to-tool table has as many entries as schemas are advertised, and every
\* advertised name resolves to the tool that declared it, the tools discovered
\* from the external provider included.
C20_NamesUnique ==
    \A a \in 1..Len(agents) :
        /\ Len(agents[a].tools_dict) = Len(ToolSchemas(agents[a].tools))
        /\ \A k \in 1..Len(agents[a].tools) :
            DictGet(agents[a].tools_dict, ToolSchemas(agents[a].tools)[k])
                = agents[a].tools[k]

-----------------------------------------------------------------------------
(* The shared MCP client (SpecMcp) *)

\* Caller c enters a call of `op` in this step.
Calls(c, op) ==
    /\ caller'[c].calls = caller[c].calls + 1
    /\ caller'[c].op = op

\* The client is Disconnected: session and both contexts are None.
Disconnected(s, sc, tc) == s = None /\ sc = None /\ tc = None

\* A call of connect on a client that has a session returns at once and
\* creates and changes nothing.
C21_ConnectStep ==
    \A c \in Callers :
        (Calls(c, "connect") /\ session # None) =>
            /\ caller'[c].pc = "idle"
            /\ caller'[c].outcome = "returned"
            /\ UNCHANGED <<session, session_context, streams_context,
                           transports, sessions>>

\* C21: connect() is idempotent: when the client is already Connected,
\* connect() establishes no new transport or session and leaves session,
\* session context and transport context unchanged.
C21_ConnectIdempotent == [][C21_ConnectStep]_vars

\* A connect that returned without ever creating a transport of its own, on a
\* client connected by the other caller.
C21_Witness ==
    \E c \in Callers :
        /\ caller[c].op = "connect"
        /\ caller[c].outcome = "returned"
        /\ caller[c].transport = None
        /\ session # None
        /\ session_context # None
        /\ Len(transports) = 1
        /\ Len(sessions) = 1

\* The step in which an awaited step of connect raises ends the call with the
\* exception and leaves the client Disconnected; and a connect or session
\* operation called on a client without a session starts a connection of its
\* own, with a new transport.
C22_ConnectFailureStep ==
    \A c \in Callers :
        /\ (caller[c].pc \in {"enter_streams", "enter_session", "initialize"}
                /\ caller'[c].outcome = "raised") =>
            /\ caller'[c].pc = "idle"
            /\ Disconnected(session', session_context', streams_context')
        /\ (\E op \in SessionOps \cup {"connect"} : Calls(c, op) /\ session = None) =>
            /\ caller'[c].pc = "enter_streams"
            /\ Len(transports') = Len(transports) + 1
            /\ streams_context' = Len(transports')
            /\ transports'[Len(transports')].state = "entering"

\* C22: if connect() fails at any step (transport entry, session entry or
\* handshake), the error is raised to the caller and the client remains
\* Disconnected (session is None), so that a later operation attempts a fresh
\* connect.
C22_FailedConnectStaysDisconnected == [][C22_ConnectFailureStep]_vars

\* A handshake failed after the session had been assigned, and the caller's
\* next operation is connecting afresh, the other caller never having called.
C22_Witness ==
    \E c \in Callers :
        /\ \A d \in Callers \ {c} : caller[d].calls = 0
        /\ caller[c].calls = 2
        /\ caller[c].op \in SessionOps
        /\ caller[c].pc = "enter_streams"
        /\ Len(sessions) = 1
        /\ sessions[1].state = "failed"
        /\ transports[1].state = "entered"
        /\ Len(transports) = 2
        /\ session = None

\* No awaited step of a connect has raised so far.
NoConnectFailure ==
    /\ \A t \in 1..Len(transports) : transports[t].state # "failed"
    /\ \A k \in 1..Len(sessions) : sessions[k].state # "failed"

\* The transports entered and the sessions entered so far.
EstablishedTransports ==
    { t \in 1..Len(transports) : transports[t].state = "entered" }

EstablishedSessions ==
    { k \in 1..Len(sessions) : sessions[k].state \in {"entered", "initialized"} }

\* C23: concurrent calls from several callers sharing one client, issued while
\* it is Disconnected and with no close called, establish at most one transport
\* and one session, and the transport context the client holds is the one
\* established: none is overwritten or orphaned.
C23_OneTransportOneSession ==
    (closes = 0 /\ NoConnectFailure) =>
        /\ Cardinality(EstablishedTransports) <= 1
        /\ Cardinality(EstablishedSessions) <= 1
        /\ \A t \in EstablishedTransports : streams_context = t

\* C24: get_tools, call_tool and get_resource connect implicitly when the
\* client is Disconnected, so no session operation is ever issued while the
\* client is Disconnected (here: even when close is never called).
C24_NoOperationWhileDisconnected ==
    closes = 0 => \A c \in Callers : caller[c].outcome # "no_session"

\* A call of close never ends with an exception; when it ends the client is
\* Disconnected; and after the session teardown, failed or not, close goes on
\* to the teardown of the transport context the client holds.
C25_CloseStep ==
    \A c \in Callers :
        /\ (caller'[c].op = "close" /\ caller'[c].pc = "idle"
                /\ caller'[c] # caller[c]) =>
            /\ caller'[c].outcome = "returned"
            /\ Disconnected(session', session_context', streams_context')
        /\ (caller[c].pc = "exit_session" /\ caller'[c] # caller[c]
                /\ streams_context # None) =>
            /\ caller'[c].pc = "exit_streams"
            /\ caller'[c].transport = streams_context
        /\ (caller[c].pc \in {"exit_session", "exit_streams"}) =>
            caller'[c].op = "close" /\ caller'[c].outcome # "raised"

\* C25: close() always leaves the client Disconnected (session, session
\* context and transport context all None) and never raises, whichever of the
\* session teardown and the transport teardown fail; the transport teardown is
\* attempted even when the session teardown failed.
C25_CloseAlwaysDisconnects == [][C25_CloseStep]_vars

\* A close of a connected client returned after both teardowns had raised.
C25_Witness ==
    \E c \in Callers :
        /\ caller[c].op = "close"
        /\ caller[c].pc = "idle"
        /\ caller[c].outcome = "returned"
        /\ caller[c].teardown_errors = 2
        /\ Disconnected(session, session_context, streams_context)
        /\ sessions[caller[c].session].state = "exit_failed"
        /\ transports[caller[c].transport].state = "exit_failed"

-----------------------------------------------------------------------------
(* SpecResource: MCPClient.get_resource, mcp_client.py:111-136 *)

\* Longest payload of a resource, in bytes or characters.
MaxBytes == 3

nonResourceVars == <<agentVars, appVars, mcpVars, interpreterVars, ragVars, imageVars, outputVars>>

\* The byte values and the characters of the payloads.
ByteValues == {0, 77, 255}

TextChars == {"a", "="}

RECURSIVE SeqsUpTo(_, _)
SeqsUpTo(S, n) ==
    IF n = 0 THEN { << >> }
    ELSE LET shorter == SeqsUpTo(S, n - 1)
         IN  shorter \cup { Append(q, x) : q \in shorter, x \in S }

\* What the server can hold under a uri: a text, a binary payload, or nothing.
Resources ==
    { [tag |-> "text", data |-> t] : t \in SeqsUpTo(TextChars, MaxBytes) }
        \cup { [tag |-> "binary", data |-> b] : b \in SeqsUpTo(ByteValues, MaxBytes) }
        \cup { NoResource }

\* The base64 alphabet; the character of sextet v is B64Alphabet[v + 1].
B64Alphabet ==
    <<"A", "B", "C", "D", "E", "F", "G", "H", "I", "J", "K", "L", "M",
      "N", "O", "P", "Q", "R", "S", "T", "U", "V", "W", "X", "Y", "Z",
      "a", "b", "c", "d", "e", "f", "g", "h", "i", "j", "k", "l", "m",
      "n", "o", "p", "q", "r", "s", "t", "u", "v", "w", "x", "y", "z",
      "0", "1", "2", "3", "4", "5", "6", "7", "8", "9", "+", "/">>

B64Char(v) == B64Alphabet[v + 1]

B64Value(ch) == (CHOOSE i \in 1..Len(B64Alphabet) : B64Alphabet[i] = ch) - 1

\* The encoding of binary contents on the wire: three bytes become four
\* characters, a last group of one or two bytes is padded with "=".
RECURSIVE B64Encode(_)
B64Encode(bytes) ==
    IF Len(bytes) = 0 THEN << >>
    ELSE IF Len(bytes) = 1
    THEN <<B64Char(bytes[1] \div 4), B64Char((bytes[1] % 4) * 16), "=", "=">>
    ELSE IF Len(bytes) = 2
    THEN <<B64Char(bytes[1] \div 4),
           B64Char((bytes[1] % 4) * 16 + bytes[2] \div 16),
           B64Char((bytes[2] % 16) * 4), "=">>
    ELSE <<B64Char(bytes[1] \div 4),
           B64Char((bytes[1] % 4) * 16 + bytes[2] \div 16),
           B64Char((bytes[2] % 16) * 4 + bytes[3] \div 64),
           B64Char(bytes[3] % 64)>>
             \o B64Encode(SubSeq(bytes, 4, Len(bytes)))

B64Decode_undecoded(chars) == chars

\* mcp_client.py:128: base64.b64decode, four characters at a time.
RECURSIVE B64Decode(_)
B64Decode(chars) ==
    IF Len(chars) < 4 THEN << >>
    ELSE LET v1 == B64Value(chars[1])
             v2 == B64Value(chars[2])
         IN  IF chars[3] = "="
             THEN <<v1 * 4 + v2 \div 16>>
             ELSE LET v3 == B64Value(chars[3])
                  IN  IF chars[4] = "="
                      THEN <<v1 * 4 + v2 \div 16, (v2 % 16) * 16 + v3 \div 4>>
                      ELSE <<v1 * 4 + v2 \div 16, (v2 % 16) * 16 + v3 \div 4,
                             (v3 % 4) * 64 + B64Value(chars[4])>>
                               \o B64Decode(SubSeq(chars, 5, Len(chars)))

\* mcp_client.py:118: what read_resource answers for a resource: no contents,
\* one TextResourceContents, or one BlobResourceContents with the payload
\* encoded.
ReadResource(r) ==
    IF r.tag = "text" THEN << [type |-> "TextResourceContents", text |-> r.data] >>
    ELSE IF r.tag = "binary"
    THEN << [type |-> "BlobResourceContents", blob |-> B64Encode(r.data)] >>
    ELSE << >>

\* mcp_client.py:121-136: the value get_resource returns for result.contents,
\* a str or a bytes.
ResourceValue(result_contents) ==
    IF result_contents # << >>
    THEN LET content_item == result_contents[1]
         IN  IF content_item.type = "TextResourceContents"
             THEN [tag |-> "str", data |-> content_item.text]
             ELSE [tag |-> "bytes", data |-> B64Decode(content_item.blob)]
    ELSE [tag |-> "bytes", data |-> << >>]

\* A resource of the server is about to be read (the connection of the
\* client is the subject of SpecMcp and is left aside here).
ResourceInit ==
    /\ AppIdle
    /\ McpIdle
    /\ InterpreterIdle
    /\ RagIdle
    /\ ImageIdle
    /\ OutputIdle
    /\ RequestIdle
    /\ resource \in Resources
    /\ contents = << >>
    /\ fetched = NoResource

\* mcp_client.py:118-136: read_resource answered and get_resource returns.
GetResourceReturns ==
    /\ fetched = NoResource
    /\ contents' = ReadResource(resource)
    /\ fetched' = ResourceValue(contents')
    /\ UNCHANGED resource
    /\ UNCHANGED nonResourceVars

ResourceNext == GetResourceReturns

SpecResource == ResourceInit /\ [][ResourceNext]_vars

\* C26: get_resource round-trips: a resource tagged as text comes back as the
\* exact original string, a resource tagged as binary as the exact original
\* bytes (the decoding of the server's base64), and an empty byte sequence
\* comes back when the server returns no contents.
C26_ResourceRoundTrips ==
    fetched # NoResource =>
        /\ resource.tag = "text" => fetched = [tag |-> "str", data |-> resource.data]
        /\ resource.tag = "binary" => fetched = [tag |-> "bytes", data |-> resource.data]
        /\ resource.tag = "none" => fetched = [tag |-> "bytes", data |-> << >>]

\* A binary resource of two bytes, sent padded, came back as its bytes.
C26_Witness ==
    /\ resource.tag = "binary"
    /\ Len(resource.data) = 2
    /\ contents # << >>
    /\ contents[1].blob[4] = "="
    /\ fetched = [tag |-> "bytes", data |-> resource.data]

-----------------------------------------------------------------------------
(* SpecInterpreter: the file loop of PythonCodeInterpreterTool._execute,    *)
(* python_code_interpreter_tool.py:97-363                                   *)

\* Most files one execution result refers to.
MaxFiles == 2

nonInterpreterVars == <<agentVars, appVars, mcpVars, resourceVars, ragVars, imageVars, outputVars>>

\* The text of an McpError, as the set of the phrases the tool looks for that
\* occur in it (python_code_interpreter_tool.py:183).
ErrorTexts ==
    { {"not found or has expired", "Session", "expired"},
      {"Session", "expired"},
      {"expired"},
      {} }

\* The texts with which the server reports that the session of the file is
\* gone.
ExpiredTexts ==
    { {"not found or has expired", "Session", "expired"}, {"Session", "expired"} }

SessionExpiredText_never(error_msg_str) == FALSE

\* python_code_interpreter_tool.py:183: the test for a session expiration.
SessionExpiredText(error_msg_str) ==
    \/ "not found or has expired" \in error_msg_str
    \/ ("Session" \in error_msg_str /\ "expired" \in error_msg_str)

FileRef(fetch, text, upload) == [fetch |-> fetch, text |-> text, upload |-> upload]

\* python_code_interpreter_tool.py:146-160: no bucket id is made without a
\* conversation id.
NoBucket == << >>

BucketId(conversation_id) ==
    IF conversation_id = << >> THEN NoBucket ELSE <<"bucket">> \o conversation_id

\* python_code_interpreter_tool.py:236-265: the calls of client.files.upload
\* in the order of the code: the bucket URL with the mime type, the bucket URL
\* without it, the bucket URL with the bare bytes, the file name as the URL.
BucketUploads == <<"bucket_url_mime_type", "bucket_url", "bucket_url_bytes">>

FileNameUpload == "file_name_url"

UploadOrder == Append(BucketUploads, FileNameUpload)

\* What the storage answers to the uploads of one file: the calls that raise,
\* and whether the answer of a call that does not raise carries a url.
Upload(raises, url) == [raises |-> raises, url |-> url]

NoUpload == Upload({}, FALSE)

Uploads ==
    { Upload(r, u) : r \in SUBSET {UploadOrder[k] : k \in 1..Len(UploadOrder)},
                     u \in BOOLEAN }

\* What the retrieval and the upload of one file can answer: get_resource
\* returns content or nothing, raises an McpError or another exception; each
\* upload of retrieved content is accepted or raises.
FileRefs ==
    { FileRef("content", {}, u) : u \in Uploads }
        \cup { FileRef("empty", {}, NoUpload), FileRef("exception", {}, NoUpload) }
        \cup { FileRef("McpError", t, NoUpload) : t \in ErrorTexts }

\* python_code_interpreter_tool.py:236-257: the nested try statements: the
\* next call is made in the except clause of the one before.
RECURSIVE TryInOrder(_, _)
TryInOrder(calls, raises) ==
    IF calls = << >> THEN << >>
    ELSE IF Head(calls) \in raises
         THEN <<Head(calls)>> \o TryInOrder(Tail(calls), raises)
         ELSE <<Head(calls)>>

\* `uploaded_file is None` is false: the last call made did not raise.
Uploaded(calls, raises) ==
    calls # << >> /\ calls[Len(calls)] \notin raises

\* python_code_interpreter_tool.py:231-269: the uploads made for a file whose
\* content was retrieved: those to the bucket when there is a bucket id, then
\* the one with the file name when nothing was uploaded.
UploadAttempts(file_ref, bucket) ==
    IF file_ref.fetch # "content" THEN << >>
    ELSE LET to_bucket == IF bucket # NoBucket
                          THEN TryInOrder(BucketUploads, file_ref.upload.raises)
                          ELSE << >>
         IN  IF Uploaded(to_bucket, file_ref.upload.raises)
             THEN to_bucket
             ELSE Append(to_bucket, FileNameUpload)

\* python_code_interpreter_tool.py:167-349: what one iteration of the file
\* loop appends to the stage for a file.
StageEntries(file_ref) ==
    IF file_ref.fetch = "McpError"
    THEN IF SessionExpiredText(file_ref.text)
         THEN <<"Warning: Session expired">>
         ELSE <<"Error: Error retrieving file", "Error processing file">>
    ELSE IF file_ref.fetch = "exception" THEN <<"Error processing file">>
    ELSE IF file_ref.fetch = "empty" THEN <<"Warning: Failed to retrieve file content">>
    ELSE << >>

Attachments_without_fallback(file_ref, bucket) ==
    IF file_ref.fetch # "content" THEN << >>
    ELSE IF /\ Uploaded(UploadAttempts(file_ref, bucket), file_ref.upload.raises)
            /\ file_ref.upload.url
         THEN <<"file_url">>
         ELSE << >>

\* python_code_interpreter_tool.py:275-339: the attachment added for a file:
\* the uploaded file's url, or a data URI when every upload raised (275-297)
\* or the answer of the upload carries no url (320-326).
Attachments(file_ref, bucket) ==
    IF file_ref.fetch # "content" THEN << >>
    ELSE IF /\ Uploaded(UploadAttempts(file_ref, bucket), file_ref.upload.raises)
            /\ file_ref.upload.url
         THEN <<"file_url">>
         ELSE <<"data_uri">>

\* python_code_interpreter_tool.py:351-363: after the last file the result of
\* the execution is returned.
AfterFile(i, all_files) ==
    IF i = Len(all_files)
    THEN /\ interpreter_pc' = "returned"
         /\ tool_result' = "execution_result"
    ELSE /\ interpreter_pc' = "files"
         /\ UNCHANGED tool_result

\* python_code_interpreter_tool.py:125-167: call_tool answered with an
\* execution result; without files it is returned at once.
CallToolAnswers ==
    /\ interpreter_pc = "idle"
    /\ \E fs \in SeqsUpTo(FileRefs, MaxFiles), conversation_id \in {<< >>, <<"c">>} :
        /\ files' = fs
        /\ bucket_id' = IF fs = << >> THEN bucket_id ELSE BucketId(conversation_id)
        /\ AfterFile(0, fs)
    /\ UNCHANGED <<file_index, stage_content, attachments, stage_attachments,
                   upload_attempts>>
    /\ UNCHANGED nonInterpreterVars

\* python_code_interpreter_tool.py:125: call_tool raised; no try encloses it.
CallToolRaises ==
    /\ interpreter_pc = "idle"
    /\ interpreter_pc' = "raised"
    /\ UNCHANGED <<files, file_index, stage_content, attachments, stage_attachments,
                   bucket_id, upload_attempts, tool_result>>
    /\ UNCHANGED nonInterpreterVars

\* python_code_interpreter_tool.py:167-363: get_resource answered for the next
\* file; the iteration runs to its end, and after the last file _execute
\* returns.
FileAnswers ==
    /\ interpreter_pc = "files"
    /\ file_index < Len(files)
    /\ file_index' = file_index + 1
    /\ stage_content' = Append(stage_content, StageEntries(files[file_index + 1]))
    /\ upload_attempts' =
        Append(upload_attempts, UploadAttempts(files[file_index + 1], bucket_id))
    /\ stage_attachments' =
        Append(stage_attachments, Attachments(files[file_index + 1], bucket_id))
    /\ attachments' = Append(attachments, Attachments(files[file_index + 1], bucket_id))
    /\ AfterFile(file_index + 1, files)
    /\ UNCHANGED <<files, bucket_id>>
    /\ UNCHANGED nonInterpreterVars

InterpreterNext ==
    \/ CallToolAnswers
    \/ CallToolRaises
    \/ FileAnswers

SpecInterpreter == Init /\ [][InterpreterNext]_vars

\* C27: a resource fetch that fails because the session at the server has
\* expired is not fatal: the file is skipped with a warning (and no
\* attachment), the remaining files are still processed, and the tool still
\* returns the execution result.
C27_ExpiredSessionNotFatal ==
    /\ \A i \in 1..file_index :
        (files[i].fetch = "McpError" /\ files[i].text \in ExpiredTexts) =>
            /\ stage_content[i] = <<"Warning: Session expired">>
            /\ attachments[i] = << >>
    /\ (\E i \in 1..Len(files) :
            files[i].fetch = "McpError" /\ files[i].text \in ExpiredTexts) =>
        /\ interpreter_pc \in {"files", "returned"}
        /\ interpreter_pc = "files" => file_index < Len(files)
        /\ interpreter_pc = "returned" =>
            /\ file_index = Len(files)
            /\ tool_result = "execution_result"
            /\ \A j \in 1..Len(files) :
                files[j].fetch = "content" => attachments[j] # << >>

\* The first file was skipped because its session had expired, the second was
\* attached, and the execution result was returned.
C27_Witness ==
    /\ interpreter_pc = "returned"
    /\ Len(files) = 2
    /\ files[1].fetch = "McpError"
    /\ files[1].text \in ExpiredTexts
    /\ stage_content[1] = <<"Warning: Session expired">>
    /\ files[2].fetch = "content"
    /\ attachments[2] # << >>
    /\ tool_result = "execution_result"

-----------------------------------------------------------------------------
(* SpecRag: concurrent RagTool._execute calls over one DocumentCache,       *)
(* rag_tool.py:97-207                                                       *)

\* Most rag_search calls made, and most entries evicted.
MaxSearches == 3

MaxEvictions == 1

nonRagVars == <<agentVars, appVars, mcpVars, resourceVars, interpreterVars, imageVars, outputVars>>

\* The x-conversation-id header of a request: absent, or its text.
Header(value) == [present |-> TRUE, value |-> value]

NoHeader == [present |-> FALSE, value |-> << >>]

\* The calls made: the header of the request and the file_url argument.
Search(header, file_url) == [header |-> header, file_url |-> file_url]

Searches ==
    { Search(NoHeader, <<"a">>),
      Search(Header(<<"a">>), <<"a">>),
      Search(Header(<<"a">>), <<":", "a">>),
      Search(Header(<<"a", ":">>), <<"a">>) }

\* agent.py:119-121: headers.get('x-conversation-id', '').
ConversationId(header) == IF header.present THEN header.value ELSE << >>

\* rag_tool.py:121: f"{conversation_id}:{file_url}".
CacheKey(conversation_id, file_url) == conversation_id \o <<":">> \o file_url

\* document_cache.get(key): the entry stored under the key, or None.
CacheGet(entries, key) ==
    IF \E i \in 1..Len(entries) : entries[i].key = key
    THEN entries[CHOOSE i \in 1..Len(entries) : entries[i].key = key]
    ELSE [key |-> key, index |-> None, chunks |-> None]

\* document_cache.set(key, index, chunks): the entry of the key is replaced,
\* or a new entry added.
CacheSet(entries, key, index, chunks) ==
    IF \E i \in 1..Len(entries) : entries[i].key = key
    THEN [i \in 1..Len(entries) |->
            IF entries[i].key = key
            THEN [key |-> key, index |-> index, chunks |-> chunks]
            ELSE entries[i]]
    ELSE Append(entries, [key |-> key, index |-> index, chunks |-> chunks])

\* The cache without its i-th entry.
CacheWithout(entries, i) ==
    SubSeq(entries, 1, i - 1) \o SubSeq(entries, i + 1, Len(entries))

CacheHit_never(cached_data) == FALSE

\* rag_tool.py:128: `if cached_data:`.
CacheHit(cached_data) == cached_data.index # None

HasText_always(text_content) == TRUE

\* rag_tool.py:136: `if not text_content:` ends the call.
HasText(text_content) == text_content

Artifact_mixed(d) == [index |-> d, chunks |-> IF d > 1 THEN d - 1 ELSE d + 1]

\* rag_tool.py:141-150: the chunks and the index built from the text of the
\* d-th extraction.
Artifact(d) == [index |-> d, chunks |-> d]

\* rag_tool.py:97-192: _execute is entered and runs, without suspension, up to
\* the request of the generation: the key, the lookup and, on a miss, the
\* extraction, the building and the storing of the artifact. An extraction
\* without text ends the call.
RagExecute(c) ==
    /\ rag[c].pc = "idle"
    /\ searches < MaxSearches
    /\ searches' = searches + 1
    /\ \E search \in Searches, text_content \in BOOLEAN :
        LET conversation_id == ConversationId(search.header)
            file_url == search.file_url
            cache_document_key == CacheKey(conversation_id, file_url)
            cached_data == CacheGet(cache, cache_document_key)
            d == Len(extractions) + 1
            call == [pc |-> "generating", conversation_id |-> conversation_id,
                     file_url |-> file_url, key |-> cache_document_key,
                     index |-> None, chunks |-> None, derived |-> FALSE,
                     result |-> "none"]
        IN  /\ lookups' = lookups \cup
                    { [conversation_id |-> conversation_id, file_url |-> file_url,
                       key |-> cache_document_key, hit |-> cached_data.index] }
            /\ IF CacheHit(cached_data)
               THEN /\ rag' = [rag EXCEPT ![c] =
                            [call EXCEPT !.index = cached_data.index,
                                         !.chunks = cached_data.chunks]]
                    /\ UNCHANGED <<cache, extractions>>
               ELSE /\ extractions' = Append(extractions,
                            [conversation_id |-> conversation_id,
                             file_url |-> file_url, key |-> cache_document_key,
                             text |-> text_content,
                             stored |-> HasText(text_content),
                             evictions |-> evictions])
                    /\ IF HasText(text_content)
                       THEN /\ cache' = CacheSet(cache, cache_document_key,
                                                 Artifact(d).index, Artifact(d).chunks)
                            /\ rag' = [rag EXCEPT ![c] =
                                    [call EXCEPT !.index = Artifact(d).index,
                                                 !.chunks = Artifact(d).chunks,
                                                 !.derived = TRUE]]
                       ELSE /\ rag' = [rag EXCEPT ![c] =
                                    [call EXCEPT !.pc = "idle",
                                                 !.result = "Error: File content not found."]]
                            /\ UNCHANGED cache
    /\ UNCHANGED evictions
    /\ UNCHANGED nonRagVars

\* rag_tool.py:192-207: the generation answered and the call returns its
\* content.
RagAnswers(c) ==
    /\ rag[c].pc = "generating"
    /\ rag' = [rag EXCEPT ![c].pc = "idle", ![c].result = "content"]
    /\ UNCHANGED <<cache, lookups, extractions, evictions, searches>>
    /\ UNCHANGED nonRagVars

\* The cache evicts an entry (idle too long, or over capacity).
Evict ==
    /\ evictions < MaxEvictions
    /\ \E i \in 1..Len(cache) : cache' = CacheWithout(cache, i)
    /\ evictions' = evictions + 1
    /\ UNCHANGED <<rag, lookups, extractions, searches>>
    /\ UNCHANGED nonRagVars

RagNext ==
    \/ \E c \in RagCallers : RagExecute(c) \/ RagAnswers(c)
    \/ Evict

SpecRag == Init /\ [][RagNext]_vars

\* Extractions i and j were made for the same conversation scope and file URL,
\* i before j, with no eviction in between.
SameDocumentNoEviction(i, j) ==
    /\ i < j
    /\ extractions[i].conversation_id = extractions[j].conversation_id
    /\ extractions[i].file_url = extractions[j].file_url
    /\ extractions[i].evictions = extractions[j].evictions

\* C28 as stated: for repeated rag_search calls with the same conversation
\* scope and the same file URL, with no eviction in between, the artifact is
\* derived exactly once: no later call performs an extraction.
C28_DerivedExactlyOnce ==
    \A i, j \in 1..Len(extractions) : ~SameDocumentNoEviction(i, j)

\* C28 amended: once a call has derived and stored the artifact, every later
\* call with the same conversation scope and file URL, with no eviction in
\* between, performs no extraction, and a call that finds the key in the
\* cache uses the artifact stored under it. (A call whose extraction finds no
\* text stores nothing, and the next call extracts again.)
C28_DerivedOnceWhenStored ==
    /\ \A i, j \in 1..Len(extractions) :
        SameDocumentNoEviction(i, j) => ~extractions[i].stored
    /\ \A l \in lookups :
        l.hit # None =>
            /\ extractions[l.hit].stored
            /\ extractions[l.hit].key = l.key
    /\ \A c \in RagCallers :
        (rag[c].pc = "generating" /\ ~rag[c].derived) =>
            /\ rag[c].index = rag[c].chunks
            /\ extractions[rag[c].index].key = rag[c].key

\* Three calls for one document, no eviction: one extraction, and a later
\* call found the artifact of that extraction in the cache.
C28_Witness ==
    /\ searches = 3
    /\ evictions = 0
    /\ Cardinality({ l.key : l \in lookups }) = 1
    /\ Len(extractions) = 1
    /\ extractions[1].stored
    /\ \E l \in lookups :
        /\ l.hit = 1
        /\ l.conversation_id = extractions[1].conversation_id
        /\ l.file_url = extractions[1].file_url

\* C29: cache keys never collide across conversations: two lookups with
\* different (conversation scope, file URL) pairs never use the same key, and
\* a call never receives an artifact derived for another conversation scope,
\* also when the header is absent or an id or URL contains ":".
C29_KeysNeverCollide ==
    /\ \A l1, l2 \in lookups :
        (l1.conversation_id # l2.conversation_id \/ l1.file_url # l2.file_url)
            => l1.key # l2.key
    /\ \A l \in lookups :
        l.hit # None =>
            extractions[l.hit].conversation_id = l.conversation_id

\* C30: when two concurrent calls with the same key both derive the artifact,
\* the cache ends with a single well-formed entry for the key, equal to one
\* of the derived artifacts: its index and its chunks come from the same
\* derivation, made for this key, never the index of one and the chunks of
\* another.
C30_SingleWellFormedEntry ==
    /\ \A i \in 1..Len(cache) :
        /\ cache[i].index = cache[i].chunks
        /\ cache[i].index \in 1..Len(extractions)
        /\ extractions[cache[i].index].stored
        /\ extractions[cache[i].index].key = cache[i].key
        /\ \A j \in 1..Len(cache) : cache[j].key = cache[i].key => j = i
    /\ \A c1, c2 \in RagCallers :
        (/\ c1 # c2
         /\ rag[c1].pc = "generating" /\ rag[c1].derived
         /\ rag[c2].pc = "generating" /\ rag[c2].derived
         /\ rag[c1].key = rag[c2].key
         /\ CacheHit(CacheGet(cache, rag[c1].key))) =>
            LET entry == CacheGet(cache, rag[c1].key)
            IN  \E c \in {c1, c2} :
                    entry.index = rag[c].index /\ entry.chunks = rag[c].chunks

\* Both calls in flight derived the artifact of the same key, and the cache
\* holds the one derived last.
C30_Witness ==
    /\ rag[1].pc = "generating" /\ rag[1].derived
    /\ rag[2].pc = "generating" /\ rag[2].derived
    /\ rag[1].key = rag[2].key
    /\ rag[1].index # rag[2].index
    /\ Len(cache) = 1
    /\ cache[1].key = rag[1].key
    /\ cache[1].index \in {rag[1].index, rag[2].index}
    /\ cache[1].chunks = cache[1].index

-----------------------------------------------------------------------------
(* The teardown and the handshake of the shared MCP client (SpecMcp) *)

\* The states of a context whose exit has already been awaited to its end.
TornDown == {"exited", "exit_failed"}

\* Caller c begins, in this step, to await the exit of a session context (or
\* of a transport context).
BeginsSessionExit(c) ==
    caller'[c].pc = "exit_session" /\ caller[c].pc # "exit_session"

BeginsStreamsExit(c) ==
    caller'[c].pc = "exit_streams" /\ caller[c].pc # "exit_streams"

\* A close of a Disconnected client tears nothing down and returns at once,
\* leaving the client Disconnected; and no exit is begun of a context whose
\* exit was already awaited, or is being awaited by another caller.
C32_CloseStep ==
    \A c \in Callers :
        /\ (Calls(c, "close")
                /\ Disconnected(session, session_context, streams_context)) =>
            /\ caller'[c].pc = "idle"
            /\ caller'[c].outcome = "returned"
            /\ Disconnected(session', session_context', streams_context')
            /\ UNCHANGED <<transports, sessions>>
        /\ BeginsSessionExit(c) =>
            /\ sessions[caller'[c].session].state \notin TornDown
            /\ \A o \in Callers \ {c} :
                ~(caller[o].pc = "exit_session"
                    /\ caller[o].session = caller'[c].session)
        /\ BeginsStreamsExit(c) =>
            /\ transports[caller'[c].transport].state \notin TornDown
            /\ \A o \in Callers \ {c} :
                ~(caller[o].pc = "exit_streams"
                    /\ caller[o].transport = caller'[c].transport)

\* C32: close() is idempotent: on an already Disconnected client (never
\* connected, or closed before) it performs no teardown, raises nothing and
\* leaves the client Disconnected; each established session and transport is
\* torn down at most once.
C32_CloseIdempotent == [][C32_CloseStep]_vars

\* C36: whenever the client is Disconnected (session is None, no call in
\* progress) no transport or session context that was entered remains open: a
\* connect that fails after the transport or the session context was entered
\* tears it down before returning to Disconnected.
C36_NothingOpenWhenDisconnected ==
    (session = None /\ \A c \in Callers : caller[c].pc = "idle") =>
        /\ \A t \in 1..Len(transports) : transports[t].state # "entered"
        /\ \A k \in 1..Len(sessions) :
            sessions[k].state \notin {"entered", "initialized"}

\* An operation issued in this step is issued on a session whose handshake
\* has completed.
C37_IssueStep ==
    \A c \in Callers :
        (caller'[c].pc = "operating" /\ caller[c].pc # "operating") =>
            sessions'[caller'[c].session].state = "initialized"

\* C37: no list-tools, call-tool or read-resource operation is ever issued on
\* a session whose handshake (initialize) has not completed, for any
\* interleaving of a connect in progress with operations of other callers of
\* the same client.
C37_NoOperationBeforeHandshake == [][C37_IssueStep]_vars

-----------------------------------------------------------------------------
(* The extraction without text (SpecRag) *)

\* Caller c makes, in this step, a lookup with a key that the cache does not
\* hold.
MissesNow(c) ==
    /\ rag[c].pc = "idle"
    /\ searches' = searches + 1
    /\ rag'[c] # rag[c]
    /\ ~CacheHit(CacheGet(cache, rag'[c].key))

\* A call that misses extracts; when the extraction yields no text the call
\* ends with the error text and the cache is left as it was.
C39_NoTextStep ==
    \A c \in RagCallers :
        MissesNow(c) =>
            /\ Len(extractions') = Len(extractions) + 1
            /\ extractions'[Len(extractions')].key = rag'[c].key
            /\ ~extractions'[Len(extractions')].text =>
                /\ rag'[c].pc = "idle"
                /\ rag'[c].result = "Error: File content not found."
                /\ cache' = cache

\* C39: when the text extraction of the document yields no content on a
\* cache miss, rag_search returns "Error: File content not found." and stores
\* nothing in the cache, so that a later call with the same key attempts the
\* derivation again.
C39_NoTextStoresNothing == [][C39_NoTextStep]_vars

\* A call found no text and a later call with the same key, with no eviction
\* in between, extracted again and stored the artifact.
C39_Witness ==
    /\ evictions = 0
    /\ Len(extractions) = 2
    /\ ~extractions[1].text
    /\ extractions[2].key = extractions[1].key
    /\ extractions[2].text
    /\ Len(cache) = 1
    /\ cache[1].key = extractions[1].key
    /\ cache[1].index = 2

-----------------------------------------------------------------------------
(* The shape of the tool-call history (SpecLoop) *)

\* The k-th entry of a history is an assistant turn with n tool calls, and
\* the n entries after it are tool results, followed by the end of the
\* history or by the next assistant turn.
TurnComplete(history, k) ==
    LET n == Len(history[k].tool_calls)
    IN  /\ k + n <= Len(history)
        /\ \A j \in (k + 1)..(k + n) : history[j].role = "tool"
        /\ k + n < Len(history) => history[k + n + 1].role = "assistant"

\* C34: in every reachable state, also after a dispatch that aborted with an
\* exception, every assistant turn of the tool-call history that has n tool
\* calls is immediately followed by exactly n tool results, and the history
\* begins with an assistant turn.
C34_HistoryWellFormed ==
    /\ tool_call_history # << >> => tool_call_history[1].role = "assistant"
    /\ \A k \in 1..Len(tool_call_history) :
        tool_call_history[k].role = "assistant" =>
            TurnComplete(tool_call_history, k)

\* The second dispatch of a request aborted with an exception; the history
\* holds the first turn with its two results and nothing of the second.
C34_Witness ==
    /\ pc = "failed_dispatch"
    /\ dispatches = 2
    /\ Len(assistant_message.tool_calls) >= 1
    /\ Len(tool_call_history) = 3
    /\ Len(tool_call_history[1].tool_calls) = 2

-----------------------------------------------------------------------------
(* The progress stages of a dispatch (FairLoop) *)

\* The stage of the i-th coroutine of the dispatch under way is open.
StageOpen(i) == i \in DOMAIN tasks /\ tasks[i].stage = "open"

StageClosed(i) == i \in DOMAIN tasks /\ tasks[i].stage = "closed"

\* C35: every progress stage opened by _process_tool_call is eventually
\* closed, on every path: tool not found, successful execution, failure of
\* the rendering of the arguments, failure of the tool execution.
C35_EveryStageClosed ==
    \A i \in 1..Cardinality(Slots) : StageOpen(i) ~> StageClosed(i)

-----------------------------------------------------------------------------
(* SpecImage: a request whose first turn asks for generate_image,          *)
(* image_generation_tool.py:12-52, deployment/base.py:32-108, agent.py      *)

\* Most attachments the image deployment streams, and the longest provider
\* stream of one turn.
MaxAttachments == 2

MaxImageTurnChunks == 2

\* An attachment without url.
NoUrl == << >>

Attachment(type, url) == [type |-> type, url |-> url]

\* The attachments the deployment can stream.
AttachmentKinds ==
    { Attachment(t, u) : t \in {"image/png", "image/jpeg", "text/csv"},
                         u \in {NoUrl, <<"u">>} }

\* deployment/base.py:72-96: what the stream of the deployment adds up to: the
\* concatenated content and the attachments in the order they arrived.
DeploymentResponses ==
    { [answered |-> TRUE, content |-> c, attachments |-> a] :
        c \in {Empty, <<"t">>}, a \in SeqsUpTo(AttachmentKinds, MaxAttachments) }

\* image_generation_tool.py:25-29: the attachments of type image/png or
\* image/jpeg.
IsImage(att) == att.type \in {"image/png", "image/jpeg"}

\* image_generation_tool.py:34: `if attachment.url:`.
HasUrl(att) == att.url # NoUrl

ShownImage(att) == IsImage(att) /\ HasUrl(att)

\* image_generation_tool.py:33-37: the markdown of the images that have a url.
RECURSIVE ImageMarkdown(_)
ImageMarkdown(atts) ==
    IF atts = << >> THEN << >>
    ELSE (IF ShownImage(Head(atts))
          THEN <<"![image](">> \o Head(atts).url \o <<")">> ELSE << >>)
            \o ImageMarkdown(Tail(atts))

\* image_generation_tool.py:43-50, deployment/base.py:98-108: the message the
\* tool answers with.
ImageMessage(tool_call, response) ==
    LET image_markdown == ImageMarkdown(response.attachments)
        current_content ==
            IF image_markdown # << >>
            THEN (IF response.content = Empty
                  THEN <<"The image has been successfully generated">>
                  ELSE response.content) \o image_markdown
            ELSE response.content
    IN  [role |-> "tool", tool_call_id |-> tool_call.id,
         content |-> current_content]

\* The provider of SpecImage: its first turn opens with the call of
\* generate_image, text may follow; the later turn is text.
ImageCallChunk ==
    Chunk(Empty, <<ToolCallDelta(0, CallIdOf(0),
                                 Function(<<"generate_image">>, <<"{", "}">>))>>)

ImageStreamChunk ==
    /\ chunk_count < MaxImageTurnChunks
    /\ ConsumeChunk(IF rounds = 1 /\ chunk_count = 0 THEN {ImageCallChunk}
                    ELSE TurnTextChunks,
                    TRUE)

\* deployment/base.py:72-108, image_generation_tool.py:18-52, agent.py:187-193:
\* the stream of the deployment ended; the images with a url are added to the
\* choice, the message is built, the stage closed and the message returned.
\* Or the deployment raised, which BaseTool.execute answers.
ImageTaskFinish(i) ==
    /\ tasks[i].status = "executing"
    /\ \/ \E response \in DeploymentResponses :
            /\ deployment_response' = response
            /\ choice_attachments' =
                choice_attachments \o SelectSeq(response.attachments, ShownImage)
            /\ tasks' = [tasks EXCEPT ![i] =
                    [@ EXCEPT !.stage = "closed", !.status = "done",
                              !.result = ImageMessage(tasks[i].tool_call, response)]]
       \/ /\ tasks' = [tasks EXCEPT ![i] = ProcessFinish(tasks[i], "raise")]
          /\ UNCHANGED imageVars
    /\ completion_order' = Append(completion_order, i)
    /\ UNCHANGED <<pc, content, tool_call_index_map, assistant_message,
                   chunk_count, arrived, rounds, tool_call_history, tool_messages,
                   dispatches, executed, sink, choice_state>>
    /\ UNCHANGED resplitVars
    /\ UNCHANGED appVars
    /\ UNCHANGED <<mcpVars, resourceVars, interpreterVars, ragVars, outputVars>>

ImageNext ==
    \/ HandleRequest
    \/ ProviderResponds
    \/ ProviderFails
    \/ ImageStreamChunk
    \/ FinalizeWithToolCalls
    \/ FinalizeFinal
    \/ \E i \in 1..Len(tasks) : TaskStart(i)
    \/ \E i \in 1..Len(tasks) : ImageTaskFinish(i)
    \/ GatherReturns

SpecImage == Init /\ [][ImageNext]_vars

\* The deployment answered with at least one image attachment.
ReturnedImages ==
    /\ deployment_response.answered
    /\ \E k \in 1..Len(deployment_response.attachments) :
        IsImage(deployment_response.attachments[k])

\* C31: when the first turn asks for generate_image and the image deployment
\* returns image attachments, every image/png or image/jpeg attachment with a
\* url is added to the choice exactly once, the tool result has non-empty
\* content, and the request completes after exactly two provider round trips
\* with the text of the second turn as the final message.
C31_ImageFlow ==
    ReturnedImages =>
        /\ choice_attachments =
            SelectSeq(deployment_response.attachments, ShownImage)
        /\ tasks[1].result.content # Empty
        /\ pc \notin {"failed_dispatch"}
        /\ rounds <= 2
        /\ dispatches = 1
        /\ pc = "done" =>
            /\ rounds = 2
            /\ assistant_message.tool_calls = << >>
            /\ assistant_message.content = Flatten(TextIncrements(arrived))
            /\ Len(tool_call_history) = 2

-----------------------------------------------------------------------------
(* SpecOutput: the output of the execution result that the code            *)
(* interpreter tool returns, python_code_interpreter_tool.py:351-363        *)

\* python_code_interpreter_tool.py:355: the length above which an entry is cut.
OutputLimit == 1000

\* Most entries of an output, and how far the lengths of the entries range
\* around the limit.
MaxOutputs == 2

MaxExcess == 2

\* The text of n characters c.
Text(n, c) == [i \in 1..n |-> c]

OutputLengths == {0, 1} \cup ((OutputLimit - MaxExcess)..(OutputLimit + MaxExcess))

OutputEntries == { Text(n, c) : n \in OutputLengths, c \in {"a", "."} }

\* python_code_interpreter_tool.py:355:
\* `output[:1000] + "..." if len(output) > 1000 else output`.
Truncate(output) ==
    IF Len(output) > OutputLimit
    THEN SubSeq(output, 1, OutputLimit) \o <<".", ".", ".">>
    ELSE output

\* python_code_interpreter_tool.py:353-357: every entry of the output is
\* replaced by its cut.
TruncateAll(outputs) == [k \in 1..Len(outputs) |-> Truncate(outputs[k])]

OutputInit ==
    /\ AppIdle
    /\ McpIdle /\ ResourceIdle /\ InterpreterIdle /\ RagIdle /\ ImageIdle
    /\ RequestIdle
    /\ execution_output \in SeqsUpTo(OutputEntries, MaxOutputs)
    /\ returned_output = NotReturned

\* python_code_interpreter_tool.py:351-363: the entries are cut and the
\* execution result is returned.
ReturnExecutionResult ==
    /\ ~returned_output.returned
    /\ returned_output' =
        [returned |-> TRUE, output |-> TruncateAll(execution_output)]
    /\ UNCHANGED execution_output
    /\ UNCHANGED <<agentVars, appVars, mcpVars, resourceVars, interpreterVars,
                   ragVars, imageVars>>

OutputNext == ReturnExecutionResult

SpecOutput == OutputInit /\ [][OutputNext]_vars

\* C33: every output entry of the execution result returned by the code
\* interpreter tool is at most 1000 characters long; entries of at most 1000
\* characters are returned unchanged.
C33_OutputAtMostLimit ==
    returned_output.returned =>
        /\ Len(returned_output.output) = Len(execution_output)
        /\ \A k \in 1..Len(execution_output) :
            /\ Len(returned_output.output[k]) <= OutputLimit
            /\ Len(execution_output[k]) <= OutputLimit =>
                returned_output.output[k] = execution_output[k]

-----------------------------------------------------------------------------
(* The uploads of the files of an execution result (SpecInterpreter)       *)

\* The uploads the code can make for a file: all four with a bucket id, the
\* one with the file name without.
UploadSchedule == IF bucket_id # NoBucket THEN UploadOrder ELSE <<FileNameUpload>>

\* The uploads made for file i are the first ones of the schedule, each but
\* the last raised, and the last did not raise unless the schedule is used up.
TriedInOrder(i) ==
    LET made == upload_attempts[i]
        raises == files[i].upload.raises
    IN  /\ 1 <= Len(made)
        /\ Len(made) <= Len(UploadSchedule)
        /\ made = SubSeq(UploadSchedule, 1, Len(made))
        /\ \A k \in 1..(Len(made) - 1) : made[k] \in raises
        /\ made[Len(made)] \in raises => Len(made) = Len(UploadSchedule)

\* Every upload made for file i raised.
AllUploadsFailed(i) ==
    \A k \in 1..Len(upload_attempts[i]) :
        upload_attempts[i][k] \in files[i].upload.raises

\* C38: for every file of an execution result whose content was retrieved and
\* is not empty, exactly one attachment is added to the stage and the same one
\* to the choice, whatever subset of the uploads fails: the uploads are tried
\* in a fixed order (bucket URL with mime type, without mime type, bare bytes,
\* file name as URL) and stop at the first success, and the attachment is a
\* base64 data URI when all of them fail or no url can be extracted.
C38_OneAttachmentPerFile ==
    \A i \in 1..file_index :
        files[i].fetch = "content" =>
            /\ Len(stage_attachments[i]) = 1
            /\ attachments[i] = stage_attachments[i]
            /\ TriedInOrder(i)
            /\ attachments[i] =
                IF AllUploadsFailed(i) \/ ~files[i].upload.url
                THEN <<"data_uri">> ELSE <<"file_url">>

\* The first file was uploaded by the third call to the bucket, after the two
\* before had raised, and attached by its url; every upload of the second file
\* raised, and it was attached as a data URI.
C38_Witness ==
    /\ interpreter_pc = "returned"
    /\ Len(files) = 2
    /\ bucket_id # NoBucket
    /\ upload_attempts[1] = BucketUploads
    /\ attachments[1] = <<"file_url">>
    /\ stage_attachments[1] = <<"file_url">>
    /\ upload_attempts[2] = UploadOrder
    /\ files[2].upload.url
    /\ attachments[2] = <<"data_uri">>
    /\ stage_attachments[2] = <<"data_uri">>

====
